---- MODULE Spec2Model ----
(***************************************************************************)
(* State-machine model of the MicroTaskBounty ledger contracts:            *)
(* VerificationContract, AntiFraud, ReputationContract, TaskManager and    *)
(* BountyPool.  Every external function is one action, enabled when the    *)
(* call does not revert; its ...Error operator gives the error of the call *)
(* in the current state ("ok": none).  A reverted call changes no state.   *)
(* Amounts are in units of 0.001 ether (0.1 ether = 100).                  *)
(***************************************************************************)
EXTENDS Integers, Sequences, FiniteSets, TLC

\* ---------------------------------------------------------------- bounds
NumVerifiers == 4
MaxSubmissions == 1
MaxTicks == 3
MaxFundings == 1
MaxRestakes == 1
MaxEarlyStakes == 1
MaxTasks == 4
MaxTaskTicks == 1
MaxResubmissions == 1
NumHashes == 22
MaxFraudTasks == 2
MaxFraudTicks == 1
MaxOtherSubmissions == 1
MaxWorkerUpdates == 12
MaxCategoryUpdates == 10
MaxVerifierUpdates == 2
MaxBadgeUpdates == 20
MaxPlainUpdates == 1
MaxPoolEther == 1000
NumSettleReviewers == 6
MaxSettleTicks == 2

\* ------------------------------------------------------------- identities
ZERO == "0x0"
Owner == "owner"
VerificationC == "VerificationContract"
ReputationC == "ReputationContract"
AntiFraudC == "AntiFraud"
BountyPoolC == "BountyPool"
TaskManagerC == "TaskManager"

VerifierNames == <<"v1", "v2", "v3", "v4", "v5", "v6", "v7", "v8">>
Verifiers == {VerifierNames[i] : i \in 1..NumVerifiers}
Workers == {"w1"}
TaskWorkers == {"w1", "w2"}
HashNames ==
    <<"img1", "img2", "img3", "img4", "img5", "img6", "img7", "img8",
      "img9", "img10", "img11", "img12", "img13", "img14", "img15", "img16",
      "img17", "img18", "img19", "img20", "img21", "img22", "img23", "img24">>
ImageHashes == {HashNames[i] : i \in 1..NumHashes}
TaskImageHashes == {HashNames[1], HashNames[2]}
Accounts == Workers \cup Verifiers
Addresses ==
    TaskWorkers \cup {VerifierNames[i] : i \in 1..Len(VerifierNames)} \cup {ZERO, Owner}
SubmissionIds == 0..(MaxSubmissions - 1)
TaskIds == 0..(MaxTasks - 1)
TaskCategories == {"PHOTO_VERIFICATION"}

\* ------------------------------------------------- VerificationContract constants
VERIFICATION_STAKE == 100
CONSENSUS_THRESHOLD == 3
MAX_VERIFIERS == 7
VERIFICATION_REWARD_PERCENTAGE == 1000
BASIS_POINTS == 10000
REWARD_DISTRIBUTION_DELAY == 300

\* ------------------------------------------------- ReputationContract constants
INITIAL_REPUTATION == 50
REPUTATION_INCREASE == 5
REPUTATION_DECREASE == 5
MAX_REPUTATION == 100
MIN_REPUTATION == 0

\* ------------------------------------------------- BountyPool constants
PLATFORM_FEE_PERCENTAGE == 250
EXPIRED_TASK_FEE_PERCENTAGE == 500

\* -------------------------------------------- TaskManager / AntiFraud constants
BADGE_TASK_THRESHOLD == 10
BADGE_SUCCESS_RATE_THRESHOLD == 90
REPUTATION_MULTIPLIER_PERCENTAGE == 1000
HIGH_REPUTATION_THRESHOLD == 80
MINIMUM_BOUNTY == 500
MAX_ACTIVE_TASKS_PER_WORKER == 3
TASK_COMPLETION_TIMEOUT == 86400
MAX_SUBMISSIONS_PER_DAY == 20
ONE_DAY == 86400

\* ------------------------------------------------- inputs of the environment
TickSeconds == REWARD_DISTRIBUTION_DELAY \div 2
StartTime == TickSeconds
BountyValues == {10 * VERIFICATION_STAKE}
FundValue == VERIFICATION_STAKE
TaskTickSeconds == ONE_DAY + ONE_DAY \div 2
DeadlineLead == ONE_DAY
MaxWorkersValues == {0, 2}
RequiresLocationValues == {TRUE}
TaskLocation == [latitude |-> 0, longitude |-> 0, radius |-> 10]
SubmissionLocations ==
    {[latitude |-> 90, longitude |-> 0, radius |-> 0],
     [latitude |-> 0, longitude |-> 91, radius |-> 0]}

VARIABLES
    now,                          \* block.timestamp
    received,                     \* ether each account has been sent by the contracts
    \* VerificationContract
    submissionIdCounter,
    submissions,
    verificationVotes,
    submissionVerifiers,
    consensusReachedAt,
    ve_bountyPoolAddress,
    ve_reputationContractAddress,
    ve_taskManagerAddress,
    ve_antiFraudAddress,
    ve_balance,
    ve_funded,                    \* ether sent to receive() of VerificationContract
    \* ReputationContract
    reputations,
    rep_verificationContractAddress,
    rep_taskManagerAddress,
    \* AntiFraud
    workerStakes,
    af_verificationContractAddress,
    \* BountyPool
    taskBounties,
    accumulatedFees,
    pool_taskManagerAddress,
    pool_verificationContractAddress,
    pool_balance,
    \* TaskManager
    taskIdCounter,
    tasks,
    workerActiveTasks,
    taskClaims,
    taskWorkers,
    tm_antiFraudAddress,
    tm_balance,
    \* AntiFraud, the submission checks
    af_taskManagerAddress,
    workerDailySubmissions,
    workerSubmissions,
    usedImageHashes,
    imageHashToWorker,
    blacklistedWorkers

veVars == <<submissionIdCounter, submissions, verificationVotes, submissionVerifiers,
            consensusReachedAt, ve_balance>>
veWiring == <<ve_bountyPoolAddress, ve_reputationContractAddress,
              ve_taskManagerAddress, ve_antiFraudAddress>>
repVars == <<reputations>>
afVars == <<workerStakes>>
poolVars == <<taskBounties, accumulatedFees, pool_balance>>
peerWiring == <<rep_verificationContractAddress, rep_taskManagerAddress,
                af_verificationContractAddress,
                pool_taskManagerAddress, pool_verificationContractAddress>>
tmVars == <<taskIdCounter, tasks, workerActiveTasks, taskClaims, taskWorkers,
            tm_antiFraudAddress, tm_balance>>
afChecks == <<af_taskManagerAddress, workerDailySubmissions, workerSubmissions,
              usedImageHashes, imageHashToWorker, blacklistedWorkers>>
verificationSide == <<received, veVars, veWiring, ve_funded, repVars, afVars,
                      poolVars, peerWiring>>
taskSide == <<tmVars, afChecks>>
vars == <<now, verificationSide, taskSide>>


\* ---------------------------------------------------------------- structs
EmptySubmission ==
    [id |-> 0, taskId |-> 0, worker |-> ZERO, status |-> "PENDING",
     approvalCount |-> 0, rejectionCount |-> 0, totalVotes |-> 0,
     bountyAmount |-> 0, rewardDistributed |-> FALSE]

EmptyVote == [hasVoted |-> FALSE, approved |-> FALSE, stake |-> 0]

EmptyLocation == [latitude |-> 0, longitude |-> 0, radius |-> 0]

EmptyTask ==
    [id |-> 0, creator |-> ZERO, bountyAmount |-> 0, maxWorkers |-> 0,
     location |-> EmptyLocation, deadline |-> 0, status |-> "ACTIVE",
     requiresLocation |-> FALSE, submissionCount |-> 0]

EmptyTaskClaim == [worker |-> ZERO, claimedAt |-> 0, completed |-> FALSE]

EmptyDailySubmissionCount == [date |-> 0, count |-> 0]

EmptyCategoryStats == [successCount |-> 0, totalCount |-> 0, hasBadge |-> FALSE]

EmptyReputation ==
    [score |-> 0, tasksCompleted |-> 0, tasksRejected |-> 0,
     verificationsPerformed |-> 0, accurateVerifications |-> 0,
     categoryStats |-> [c \in TaskCategories |-> EmptyCategoryStats]]

Init ==
    /\ now = StartTime
    /\ received = [a \in Addresses |-> 0]
    /\ submissionIdCounter = 0
    /\ submissions = [s \in SubmissionIds |-> EmptySubmission]
    /\ verificationVotes = [s \in SubmissionIds |-> [a \in Addresses |-> EmptyVote]]
    /\ submissionVerifiers = [s \in SubmissionIds |-> <<>>]
    /\ consensusReachedAt = [s \in SubmissionIds |-> 0]
    /\ ve_bountyPoolAddress = ZERO
    /\ ve_reputationContractAddress = ZERO
    /\ ve_taskManagerAddress = ZERO
    /\ ve_antiFraudAddress = ZERO
    /\ ve_balance = 0
    /\ ve_funded = 0
    /\ reputations = [a \in Addresses |-> EmptyReputation]
    /\ rep_verificationContractAddress = ZERO
    /\ rep_taskManagerAddress = ZERO
    /\ workerStakes = [a \in Addresses |-> 0]
    /\ af_verificationContractAddress = ZERO
    /\ taskBounties = [t \in TaskIds |-> 0]
    /\ accumulatedFees = 0
    /\ pool_taskManagerAddress = ZERO
    /\ pool_verificationContractAddress = ZERO
    /\ pool_balance = 0
    /\ taskIdCounter = 0
    /\ tasks = [t \in TaskIds |-> EmptyTask]
    /\ workerActiveTasks = [a \in Addresses |-> <<>>]
    /\ taskClaims = [t \in TaskIds |-> [a \in Addresses |-> EmptyTaskClaim]]
    /\ taskWorkers = [t \in TaskIds |-> <<>>]
    /\ tm_antiFraudAddress = ZERO
    /\ tm_balance = 0
    /\ af_taskManagerAddress = ZERO
    /\ workerDailySubmissions = [a \in Addresses |-> EmptyDailySubmissionCount]
    /\ usedImageHashes = [h \in ImageHashes |-> FALSE]
    /\ imageHashToWorker = [h \in ImageHashes |-> ZERO]
    /\ workerSubmissions = [a \in Addresses |-> <<>>]
    /\ blacklistedWorkers = [a \in Addresses |-> FALSE]

\* ------------------------------------------------------ ReputationContract

\* The score after one +5 / -5 step without saturation.
AdjustScoreUnclamped(score, up) ==
    IF up THEN score + REPUTATION_INCREASE ELSE score - REPUTATION_DECREASE

\* The score after one +5 / -5 step, saturating at MAX_REPUTATION / MIN_REPUTATION.
AdjustScore(score, up) ==
    IF up
    THEN IF score + REPUTATION_INCREASE <= MAX_REPUTATION
         THEN score + REPUTATION_INCREASE ELSE MAX_REPUTATION
    ELSE IF score >= REPUTATION_DECREASE
         THEN score - REPUTATION_DECREASE ELSE MIN_REPUTATION

updateWorkerReputation(rep, successful) ==
    LET r0 == IF rep.score = 0 /\ rep.tasksCompleted = 0 /\ rep.tasksRejected = 0
              THEN [rep EXCEPT !.score = INITIAL_REPUTATION] ELSE rep
    IN  IF successful
        THEN [r0 EXCEPT !.score = AdjustScore(r0.score, TRUE),
                        !.tasksCompleted = @ + 1]
        ELSE [r0 EXCEPT !.score = AdjustScore(r0.score, FALSE),
                        !.tasksRejected = @ + 1]

updateVerifierReputation(rep, accurateVote) ==
    LET r0 == IF rep.score = 0 /\ rep.verificationsPerformed = 0
              THEN [rep EXCEPT !.score = INITIAL_REPUTATION] ELSE rep
        r1 == [r0 EXCEPT !.verificationsPerformed = @ + 1]
    IN  IF accurateVote
        THEN [r1 EXCEPT !.score = AdjustScore(r1.score, TRUE),
                        !.accurateVerifications = @ + 1]
        ELSE [r1 EXCEPT !.score = AdjustScore(r1.score, FALSE)]

\* _shouldAwardBadge without the threshold on the number of tasks.
shouldAwardBadgeAnyCount(stats) ==
    IF stats.totalCount = 0 THEN FALSE
    ELSE (stats.successCount * 100) \div stats.totalCount >= BADGE_SUCCESS_RATE_THRESHOLD

shouldAwardBadge(stats) ==
    IF stats.totalCount < BADGE_TASK_THRESHOLD THEN FALSE
    ELSE (stats.successCount * 100) \div stats.totalCount >= BADGE_SUCCESS_RATE_THRESHOLD

updateWorkerReputationWithCategory(rep, category, successful) ==
    LET r1 == updateWorkerReputation(rep, successful)
        counted == [r1.categoryStats[category] EXCEPT
                       !.totalCount = @ + 1,
                       !.successCount = IF successful THEN @ + 1 ELSE @]
        catStats == IF ~counted.hasBadge /\ shouldAwardBadge(counted)
                    THEN [counted EXCEPT !.hasBadge = TRUE] ELSE counted
    IN  [r1 EXCEPT !.categoryStats[category] = catStats]

\* modifier onlyAuthorizedContracts of ReputationContract
RepOnlyAuthorizedContracts(caller) ==
    caller = rep_verificationContractAddress \/ caller = rep_taskManagerAddress

\* onlyVerificationContract admitting the task manager as well.
RepOnlyVerificationContractOrTaskManager(caller) == RepOnlyAuthorizedContracts(caller)

\* modifier onlyVerificationContract of ReputationContract
RepOnlyVerificationContract(caller) == caller = rep_verificationContractAddress

\* External call ReputationContract.updateWorkerReputation made by `caller` on the
\* table `reps`: the error ("ok": none) and the table after it.
CallUpdateWorkerReputation(caller, reps, worker, successful) ==
    IF ~RepOnlyVerificationContract(caller)
    THEN [err |-> "UnauthorizedCaller", reputations |-> reps]
    ELSE [err |-> "ok",
          reputations |-> [reps EXCEPT ![worker] = updateWorkerReputation(@, successful)]]

CallUpdateVerifierReputation(caller, reps, verifier, accurateVote) ==
    IF ~RepOnlyVerificationContract(caller)
    THEN [err |-> "UnauthorizedCaller", reputations |-> reps]
    ELSE [err |-> "ok",
          reputations |-> [reps EXCEPT ![verifier] = updateVerifierReputation(@, accurateVote)]]

CallUpdateWorkerReputationWithCategory(caller, reps, worker, category, successful) ==
    IF ~RepOnlyAuthorizedContracts(caller)
    THEN [err |-> "UnauthorizedCaller", reputations |-> reps]
    ELSE [err |-> "ok",
          reputations |-> [reps EXCEPT ![worker] =
              updateWorkerReputationWithCategory(@, category, successful)]]

InitializeReputationError(user) ==
    IF reputations[user].score # 0 THEN "ReputationAlreadyInitialized" ELSE "ok"

\* The steps of ReputationContract taken by calls from outside the other contracts.
RepFrame == UNCHANGED <<now, received, veVars, veWiring, ve_funded, afVars, poolVars,
                        peerWiring, taskSide>>

initializeReputation(caller, user) ==
    /\ InitializeReputationError(user) = "ok"
    /\ reputations' = [reputations EXCEPT ![user].score = INITIAL_REPUTATION]
    /\ RepFrame

Rep_updateWorkerReputation(caller, worker, successful) ==
    LET c == CallUpdateWorkerReputation(caller, reputations, worker, successful)
    IN  /\ c.err = "ok"
        /\ reputations' = c.reputations
        /\ RepFrame

Rep_updateWorkerReputationWithCategory(caller, worker, category, successful) ==
    LET c == CallUpdateWorkerReputationWithCategory(caller, reputations, worker,
                 category, successful)
    IN  /\ c.err = "ok"
        /\ reputations' = c.reputations
        /\ RepFrame

Rep_updateVerifierReputation(caller, verifier, accurateVote) ==
    LET c == CallUpdateVerifierReputation(caller, reputations, verifier, accurateVote)
    IN  /\ c.err = "ok"
        /\ reputations' = c.reputations
        /\ RepFrame

hasCategoryBadge(user, category) == reputations[user].categoryStats[category].hasBadge

getReputationMultiplier(user, category) ==
    IF reputations[user].categoryStats[category].hasBadge
    THEN BASIS_POINTS + REPUTATION_MULTIPLIER_PERCENTAGE
    ELSE BASIS_POINTS

getReputationScore(user) ==
    LET rep == reputations[user]
    IN  IF rep.score = 0 /\ rep.tasksCompleted = 0 /\ rep.tasksRejected = 0
           /\ rep.verificationsPerformed = 0
        THEN INITIAL_REPUTATION ELSE rep.score

getReputationData(user) ==
    LET rep == reputations[user]
    IN  [score |-> IF rep.score = 0 THEN INITIAL_REPUTATION ELSE rep.score,
         tasksCompleted |-> rep.tasksCompleted,
         tasksRejected |-> rep.tasksRejected,
         verificationsPerformed |-> rep.verificationsPerformed,
         accurateVerifications |-> rep.accurateVerifications]

hasPriorityAccess(user) ==
    LET stored == reputations[user].score
        score == IF stored = 0 THEN INITIAL_REPUTATION ELSE stored
    IN  score >= HIGH_REPUTATION_THRESHOLD

\* --------------------------------------------------------------- AntiFraud

\* External call AntiFraud.forfeitStake made by `caller`.
CallForfeitStake(caller, stakes, worker) ==
    IF caller # af_verificationContractAddress
    THEN [err |-> "UnauthorizedCaller", workerStakes |-> stakes]
    ELSE IF stakes[worker] = 0
    THEN [err |-> "NoStakeToForfeit", workerStakes |-> stakes]
    ELSE [err |-> "ok", workerStakes |-> [stakes EXCEPT ![worker] = 0]]

\* -------------------------------------------------------------- BountyPool

\* The platform fee rounded up instead of down.
PlatformFeeRoundedUp(amount) ==
    (amount * PLATFORM_FEE_PERCENTAGE + BASIS_POINTS - 1) \div BASIS_POINTS

PlatformFee(amount) == (amount * PLATFORM_FEE_PERCENTAGE) \div BASIS_POINTS

ExpiredTaskFee(amount) == (amount * EXPIRED_TASK_FEE_PERCENTAGE) \div BASIS_POINTS

\* External call BountyPool.distributeReward made by `caller`: the error and the
\* pool's bookkeeping, its ether and the worker's receipts after it.
CallDistributeReward(caller, taskId, worker, amount) ==
    LET unchanged == [taskBounties |-> taskBounties, accumulatedFees |-> accumulatedFees,
                      pool_balance |-> pool_balance, paid |-> 0]
        platformFee == PlatformFee(amount)
        workerReward == amount - platformFee
    IN  IF caller # pool_verificationContractAddress
        THEN [err |-> "UnauthorizedCaller"] @@ unchanged
        ELSE IF taskBounties[taskId] < amount
        THEN [err |-> "InsufficientBounty"] @@ unchanged
        ELSE IF pool_balance < workerReward
        THEN [err |-> "TransferFailed"] @@ unchanged
        ELSE [err |-> "ok",
              taskBounties |-> [taskBounties EXCEPT ![taskId] = @ - amount],
              accumulatedFees |-> accumulatedFees + platformFee,
              pool_balance |-> pool_balance - workerReward,
              paid |-> workerReward]

\* refundBounty paying the creator the whole amount while still booking the fee.
CallRefundBountyInFull(caller, taskId, creator, amount) ==
    LET unchanged == [taskBounties |-> taskBounties, accumulatedFees |-> accumulatedFees,
                      pool_balance |-> pool_balance, paid |-> 0]
        platformFee == ExpiredTaskFee(amount)
    IN  IF caller # pool_taskManagerAddress
        THEN [err |-> "UnauthorizedCaller"] @@ unchanged
        ELSE IF taskBounties[taskId] < amount
        THEN [err |-> "InsufficientBounty"] @@ unchanged
        ELSE IF pool_balance < amount
        THEN [err |-> "TransferFailed"] @@ unchanged
        ELSE [err |-> "ok",
              taskBounties |-> [taskBounties EXCEPT ![taskId] = @ - amount],
              accumulatedFees |-> accumulatedFees + platformFee,
              pool_balance |-> pool_balance - amount,
              paid |-> amount]

\* External call BountyPool.refundBounty made by `caller`: the error and the pool's
\* bookkeeping, its ether and the creator's receipts after it.
CallRefundBounty(caller, taskId, creator, amount) ==
    LET unchanged == [taskBounties |-> taskBounties, accumulatedFees |-> accumulatedFees,
                      pool_balance |-> pool_balance, paid |-> 0]
        platformFee == ExpiredTaskFee(amount)
        refundAmount == amount - platformFee
    IN  IF caller # pool_taskManagerAddress
        THEN [err |-> "UnauthorizedCaller"] @@ unchanged
        ELSE IF taskBounties[taskId] < amount
        THEN [err |-> "InsufficientBounty"] @@ unchanged
        ELSE IF pool_balance < refundAmount
        THEN [err |-> "TransferFailed"] @@ unchanged
        ELSE [err |-> "ok",
              taskBounties |-> [taskBounties EXCEPT ![taskId] = @ - amount],
              accumulatedFees |-> accumulatedFees + platformFee,
              pool_balance |-> pool_balance - refundAmount,
              paid |-> refundAmount]

\* withdrawPlatformFees leaving the fee pool as it was.
CallWithdrawPlatformFeesKeepingPool(caller) ==
    LET unchanged == [accumulatedFees |-> accumulatedFees,
                      pool_balance |-> pool_balance, paid |-> 0]
    IN  IF caller # Owner
        THEN [err |-> "OwnableUnauthorizedAccount"] @@ unchanged
        ELSE IF accumulatedFees = 0
        THEN [err |-> "NoFeesToWithdraw"] @@ unchanged
        ELSE IF pool_balance < accumulatedFees
        THEN [err |-> "TransferFailed"] @@ unchanged
        ELSE [err |-> "ok", accumulatedFees |-> accumulatedFees,
              pool_balance |-> pool_balance - accumulatedFees,
              paid |-> accumulatedFees]

\* External call BountyPool.withdrawPlatformFees made by `caller`.
CallWithdrawPlatformFees(caller) ==
    LET unchanged == [accumulatedFees |-> accumulatedFees,
                      pool_balance |-> pool_balance, paid |-> 0]
        amount == accumulatedFees
    IN  IF caller # Owner
        THEN [err |-> "OwnableUnauthorizedAccount"] @@ unchanged
        ELSE IF amount = 0
        THEN [err |-> "NoFeesToWithdraw"] @@ unchanged
        ELSE IF pool_balance < amount
        THEN [err |-> "TransferFailed"] @@ unchanged
        ELSE [err |-> "ok", accumulatedFees |-> 0,
              pool_balance |-> pool_balance - amount, paid |-> amount]

PoolFrame == UNCHANGED <<now, veVars, veWiring, ve_funded, repVars, afVars, peerWiring, taskSide>>

BountyPool_distributeReward(caller, taskId, worker, amount) ==
    LET r == CallDistributeReward(caller, taskId, worker, amount)
    IN  /\ r.err = "ok"
        /\ taskBounties' = r.taskBounties
        /\ accumulatedFees' = r.accumulatedFees
        /\ pool_balance' = r.pool_balance
        /\ received' = [received EXCEPT ![worker] = @ + r.paid]
        /\ PoolFrame

refundBounty(caller, taskId, creator, amount) ==
    LET r == CallRefundBounty(caller, taskId, creator, amount)
    IN  /\ r.err = "ok"
        /\ taskBounties' = r.taskBounties
        /\ accumulatedFees' = r.accumulatedFees
        /\ pool_balance' = r.pool_balance
        /\ received' = [received EXCEPT ![creator] = @ + r.paid]
        /\ PoolFrame

withdrawPlatformFees(caller) ==
    LET r == CallWithdrawPlatformFees(caller)
    IN  /\ r.err = "ok"
        /\ accumulatedFees' = r.accumulatedFees
        /\ pool_balance' = r.pool_balance
        /\ received' = [received EXCEPT ![Owner] = @ + r.paid]
        /\ UNCHANGED taskBounties
        /\ PoolFrame

DepositError(caller) ==
    IF caller # pool_taskManagerAddress THEN "UnauthorizedCaller" ELSE "ok"

depositBounty(caller, taskId, value) ==
    /\ DepositError(caller) = "ok"
    /\ taskBounties' = [taskBounties EXCEPT ![taskId] = @ + value]
    /\ pool_balance' = pool_balance + value
    /\ UNCHANGED <<now, received, veVars, veWiring, ve_funded, repVars, afVars,
                   accumulatedFees, peerWiring>>

\* ---------------------------------------------------- VerificationContract

Range(seq) == {seq[i] : i \in 1..Len(seq)}

\* The revert of an owner-only address setter (Ownable.onlyOwner, then the zero check).
SetAddressError(caller, addr) ==
    IF caller # Owner THEN "OwnableUnauthorizedAccount"
    ELSE IF addr = ZERO THEN "InvalidAddress"
    ELSE "ok"

setBountyPool(caller, addr) ==
    /\ SetAddressError(caller, addr) = "ok"
    /\ ve_bountyPoolAddress' = addr
    /\ UNCHANGED <<ve_reputationContractAddress, ve_taskManagerAddress,
                   ve_antiFraudAddress, peerWiring>>
    /\ UNCHANGED <<now, received, veVars, ve_funded, repVars, afVars, poolVars>>

setReputationContract(caller, addr) ==
    /\ SetAddressError(caller, addr) = "ok"
    /\ ve_reputationContractAddress' = addr
    /\ UNCHANGED <<ve_bountyPoolAddress, ve_taskManagerAddress, ve_antiFraudAddress,
                   peerWiring>>
    /\ UNCHANGED <<now, received, veVars, ve_funded, repVars, afVars, poolVars>>

setTaskManager(caller, addr) ==
    /\ SetAddressError(caller, addr) = "ok"
    /\ ve_taskManagerAddress' = addr
    /\ UNCHANGED <<ve_bountyPoolAddress, ve_reputationContractAddress,
                   ve_antiFraudAddress, peerWiring>>
    /\ UNCHANGED <<now, received, veVars, ve_funded, repVars, afVars, poolVars>>

setAntiFraud(caller, addr) ==
    /\ SetAddressError(caller, addr) = "ok"
    /\ ve_antiFraudAddress' = addr
    /\ UNCHANGED <<ve_bountyPoolAddress, ve_reputationContractAddress,
                   ve_taskManagerAddress, peerWiring>>
    /\ UNCHANGED <<now, received, veVars, ve_funded, repVars, afVars, poolVars>>

Reputation_setVerificationContract(caller, addr) ==
    /\ SetAddressError(caller, addr) = "ok"
    /\ rep_verificationContractAddress' = addr
    /\ UNCHANGED <<veWiring, rep_taskManagerAddress, af_verificationContractAddress,
                   pool_taskManagerAddress, pool_verificationContractAddress>>
    /\ UNCHANGED <<now, received, veVars, ve_funded, repVars, afVars, poolVars>>

AntiFraud_setVerificationContract(caller, addr) ==
    /\ SetAddressError(caller, addr) = "ok"
    /\ af_verificationContractAddress' = addr
    /\ UNCHANGED <<veWiring, rep_verificationContractAddress, rep_taskManagerAddress,
                   pool_taskManagerAddress, pool_verificationContractAddress>>
    /\ UNCHANGED <<now, received, veVars, ve_funded, repVars, afVars, poolVars>>

BountyPool_setVerificationContract(caller, addr) ==
    /\ SetAddressError(caller, addr) = "ok"
    /\ pool_verificationContractAddress' = addr
    /\ UNCHANGED <<veWiring, rep_verificationContractAddress, rep_taskManagerAddress,
                   af_verificationContractAddress, pool_taskManagerAddress>>
    /\ UNCHANGED <<now, received, veVars, ve_funded, repVars, afVars, poolVars>>

Reputation_setTaskManager(caller, addr) ==
    /\ SetAddressError(caller, addr) = "ok"
    /\ rep_taskManagerAddress' = addr
    /\ UNCHANGED <<veWiring, rep_verificationContractAddress,
                   af_verificationContractAddress, pool_taskManagerAddress,
                   pool_verificationContractAddress>>
    /\ UNCHANGED <<now, received, veVars, ve_funded, repVars, afVars, poolVars>>

BountyPool_setTaskManager(caller, addr) ==
    /\ SetAddressError(caller, addr) = "ok"
    /\ pool_taskManagerAddress' = addr
    /\ UNCHANGED <<veWiring, rep_verificationContractAddress, rep_taskManagerAddress,
                   af_verificationContractAddress, pool_verificationContractAddress>>
    /\ UNCHANGED <<now, received, veVars, ve_funded, repVars, afVars, poolVars>>

\* modifier onlyTaskManager of VerificationContract
CreateSubmissionError(caller) ==
    IF caller # ve_taskManagerAddress THEN "UnauthorizedCaller" ELSE "ok"

createSubmission(caller, taskId, worker, bountyAmount) ==
    LET submissionId == submissionIdCounter
    IN  /\ CreateSubmissionError(caller) = "ok"
        /\ submissionIdCounter' = submissionIdCounter + 1
        /\ submissions' = [submissions EXCEPT ![submissionId] =
               [id |-> submissionId, taskId |-> taskId, worker |-> worker,
                status |-> "PENDING", approvalCount |-> 0, rejectionCount |-> 0,
                totalVotes |-> 0, bountyAmount |-> bountyAmount,
                rewardDistributed |-> FALSE]]
        /\ UNCHANGED <<now, received, verificationVotes, submissionVerifiers,
                       consensusReachedAt, ve_balance, veWiring, ve_funded, repVars,
                       afVars, poolVars, peerWiring>>

\* The revert of stakeForVerification, in the order of its checks.
StakeError(caller, submissionId, value) ==
    LET submission == submissions[submissionId]
    IN  IF submission.id # submissionId THEN "SubmissionNotFound"
        ELSE IF submission.status # "PENDING" /\ submission.status # "DISPUTED"
        THEN "AlreadyVerified"
        ELSE IF verificationVotes[submissionId][caller].hasVoted THEN "AlreadyVoted"
        ELSE IF Len(submissionVerifiers[submissionId]) >= MAX_VERIFIERS
        THEN "MaxVerifiersReached"
        ELSE IF caller = submission.worker THEN "WorkerCannotVerifyOwnSubmission"
        ELSE IF value < VERIFICATION_STAKE THEN "InsufficientStake"
        ELSE "ok"

stakeForVerification(caller, submissionId, value) ==
    /\ StakeError(caller, submissionId, value) = "ok"
    /\ verificationVotes' =
           [verificationVotes EXCEPT ![submissionId][caller].stake = value]
    /\ submissionVerifiers' =
           [submissionVerifiers EXCEPT ![submissionId] = Append(@, caller)]
    /\ ve_balance' = ve_balance + value
    /\ UNCHANGED <<now, received, submissionIdCounter, submissions, consensusReachedAt,
                   veWiring, ve_funded, repVars, afVars, poolVars, peerWiring>>

\* _checkConsensus on the submission `sub` (its counts already updated): the error
\* of the calls it makes, and the submission, the consensus time, the reputation
\* table and AntiFraud's stakes after it.
checkConsensus(submissionId, sub) ==
    LET noRep == [err |-> "ok", reputations |-> reputations]
        noAf == [err |-> "ok", workerStakes |-> workerStakes]
    IN  IF sub.approvalCount >= CONSENSUS_THRESHOLD
        THEN LET r == IF ve_reputationContractAddress # ZERO
                      THEN CallUpdateWorkerReputation(VerificationC, reputations,
                                                      sub.worker, TRUE)
                      ELSE noRep
             IN  [err |-> r.err, submission |-> [sub EXCEPT !.status = "VERIFIED"],
                  consensusAt |-> now, reputations |-> r.reputations,
                  workerStakes |-> workerStakes]
        ELSE IF sub.rejectionCount >= CONSENSUS_THRESHOLD
        THEN LET r == IF ve_reputationContractAddress # ZERO
                      THEN CallUpdateWorkerReputation(VerificationC, reputations,
                                                      sub.worker, FALSE)
                      ELSE noRep
                 f == IF ve_antiFraudAddress # ZERO
                      THEN CallForfeitStake(VerificationC, workerStakes, sub.worker)
                      ELSE noAf
             IN  [err |-> IF r.err # "ok" THEN r.err ELSE f.err,
                  submission |-> [sub EXCEPT !.status = "REJECTED"],
                  consensusAt |-> now, reputations |-> r.reputations,
                  workerStakes |-> f.workerStakes]
        ELSE IF sub.totalVotes >= MAX_VERIFIERS
        THEN [err |-> "ok", submission |-> [sub EXCEPT !.status = "DISPUTED"],
              consensusAt |-> consensusReachedAt[submissionId],
              reputations |-> reputations, workerStakes |-> workerStakes]
        ELSE [err |-> "ok", submission |-> sub,
              consensusAt |-> consensusReachedAt[submissionId],
              reputations |-> reputations, workerStakes |-> workerStakes]

\* The submission with the vote counted (submitVerification before _checkConsensus).
CountVote(submission, approved) ==
    [submission EXCEPT !.totalVotes = @ + 1,
                       !.approvalCount = IF approved THEN @ + 1 ELSE @,
                       !.rejectionCount = IF approved THEN @ ELSE @ + 1]

\* The revert of submitVerification: its own checks, then those of the calls
\* _checkConsensus makes.
\* The revert of submitVerification without the check of an earlier vote.
SubmitErrorRevotable(caller, submissionId, approved) ==
    LET submission == submissions[submissionId]
        vote == verificationVotes[submissionId][caller]
    IN  IF submission.id # submissionId THEN "SubmissionNotFound"
        ELSE IF vote.stake = 0 THEN "InsufficientStake"
        ELSE checkConsensus(submissionId, CountVote(submission, approved)).err

SubmitError(caller, submissionId, approved) ==
    LET submission == submissions[submissionId]
        vote == verificationVotes[submissionId][caller]
    IN  IF submission.id # submissionId THEN "SubmissionNotFound"
        ELSE IF vote.stake = 0 THEN "InsufficientStake"
        ELSE IF vote.hasVoted THEN "AlreadyVoted"
        ELSE checkConsensus(submissionId, CountVote(submission, approved)).err

submitVerification(caller, submissionId, approved) ==
    LET c == checkConsensus(submissionId, CountVote(submissions[submissionId], approved))
    IN  /\ SubmitError(caller, submissionId, approved) = "ok"
        /\ verificationVotes' = [verificationVotes EXCEPT ![submissionId][caller] =
               [@ EXCEPT !.hasVoted = TRUE, !.approved = approved]]
        /\ submissions' = [submissions EXCEPT ![submissionId] = c.submission]
        /\ consensusReachedAt' =
               [consensusReachedAt EXCEPT ![submissionId] = c.consensusAt]
        /\ reputations' = c.reputations
        /\ workerStakes' = c.workerStakes
        /\ UNCHANGED <<now, received, submissionIdCounter, submissionVerifiers,
                       ve_balance, veWiring, ve_funded, poolVars, peerWiring>>

VerifierReward(stake) == stake + ((stake * VERIFICATION_REWARD_PERCENTAGE) \div BASIS_POINTS)

\* The loop of _distributeVerifierRewards from entry i of `verifiers` on; acc holds
\* the error so far, the contract's ether, the receipts and the reputation table.
RECURSIVE PayVerifiers(_, _, _, _, _)
PayVerifiers(submissionId, verifiers, i, consensusApproved, acc) ==
    IF i > Len(verifiers) \/ acc.err # "ok"
    THEN acc
    ELSE LET verifier == verifiers[i]
             vote == verificationVotes[submissionId][verifier]
             votedWithConsensus == (vote.approved = consensusApproved)
             reward == VerifierReward(vote.stake)
             r == IF ve_reputationContractAddress # ZERO
                  THEN CallUpdateVerifierReputation(VerificationC, acc.reputations,
                                                    verifier, votedWithConsensus)
                  ELSE [err |-> "ok", reputations |-> acc.reputations]
         IN  IF ~vote.hasVoted
             THEN PayVerifiers(submissionId, verifiers, i + 1, consensusApproved, acc)
             ELSE IF votedWithConsensus /\ acc.balance < reward
             THEN [acc EXCEPT !.err = "Verifier reward transfer failed"]
             ELSE PayVerifiers(submissionId, verifiers, i + 1, consensusApproved,
                      [err |-> r.err,
                       balance |-> IF votedWithConsensus
                                   THEN acc.balance - reward ELSE acc.balance,
                       received |-> IF votedWithConsensus
                                    THEN [acc.received EXCEPT ![verifier] = @ + reward]
                                    ELSE acc.received,
                       reputations |-> r.reputations])

distributeVerifierRewards(submissionId, status, rcvd) ==
    PayVerifiers(submissionId, submissionVerifiers[submissionId], 1,
                 status = "VERIFIED",
                 [err |-> "ok", balance |-> ve_balance, received |-> rcvd,
                  reputations |-> reputations])

\* The worker's payout of distributeVerificationRewards (the call to BountyPool).
PayWorker(submission) ==
    IF submission.status = "VERIFIED" /\ ve_bountyPoolAddress # ZERO
    THEN CallDistributeReward(VerificationC, submission.taskId, submission.worker,
                              submission.bountyAmount)
    ELSE [err |-> "ok", taskBounties |-> taskBounties,
          accumulatedFees |-> accumulatedFees, pool_balance |-> pool_balance,
          paid |-> 0]

\* The whole of distributeVerificationRewards once its checks have passed.
Settle(submissionId) ==
    LET submission == submissions[submissionId]
        w == PayWorker(submission)
        v == distributeVerifierRewards(submissionId, submission.status,
                 [received EXCEPT ![submission.worker] = @ + w.paid])
    IN  [err |-> IF w.err # "ok" THEN w.err ELSE v.err, pool |-> w, verifiers |-> v]

TimeSinceConsensus(submissionId) == now - consensusReachedAt[submissionId]

\* The wait reported by RewardDistributionTooEarly.
RemainingWait(submissionId) == REWARD_DISTRIBUTION_DELAY - TimeSinceConsensus(submissionId)

\* distributeVerificationRewards without its check of rewardDistributed.
DistributeErrorRepeatable(submissionId) ==
    LET submission == submissions[submissionId]
    IN  IF submission.id # submissionId THEN "SubmissionNotFound"
        ELSE IF submission.status # "VERIFIED" /\ submission.status # "REJECTED"
        THEN "ConsensusNotReached"
        ELSE IF TimeSinceConsensus(submissionId) < REWARD_DISTRIBUTION_DELAY
        THEN "RewardDistributionTooEarly"
        ELSE Settle(submissionId).err

\* distributeVerificationRewards without its check of the delay.
DistributeErrorUndelayed(submissionId) ==
    LET submission == submissions[submissionId]
    IN  IF submission.id # submissionId THEN "SubmissionNotFound"
        ELSE IF submission.status # "VERIFIED" /\ submission.status # "REJECTED"
        THEN "ConsensusNotReached"
        ELSE IF submission.rewardDistributed THEN "RewardAlreadyDistributed"
        ELSE Settle(submissionId).err

\* The revert of distributeVerificationRewards, in the order of its checks.
DistributeError(submissionId) ==
    LET submission == submissions[submissionId]
    IN  IF submission.id # submissionId THEN "SubmissionNotFound"
        ELSE IF submission.status # "VERIFIED" /\ submission.status # "REJECTED"
        THEN "ConsensusNotReached"
        ELSE IF submission.rewardDistributed THEN "RewardAlreadyDistributed"
        ELSE IF TimeSinceConsensus(submissionId) < REWARD_DISTRIBUTION_DELAY
        THEN "RewardDistributionTooEarly"
        ELSE Settle(submissionId).err

distributeVerificationRewards(submissionId) ==
    LET s == Settle(submissionId)
    IN  /\ DistributeError(submissionId) = "ok"
        /\ submissions' = [submissions EXCEPT ![submissionId].rewardDistributed = TRUE]
        /\ taskBounties' = s.pool.taskBounties
        /\ accumulatedFees' = s.pool.accumulatedFees
        /\ pool_balance' = s.pool.pool_balance
        /\ ve_balance' = s.verifiers.balance
        /\ received' = s.verifiers.received
        /\ reputations' = s.verifiers.reputations
        /\ UNCHANGED <<now, submissionIdCounter, verificationVotes, submissionVerifiers,
                       consensusReachedAt, veWiring, ve_funded, afVars, peerWiring>>

\* receive() of VerificationContract: anyone may send it ether.
receive(value) ==
    /\ ve_balance' = ve_balance + value
    /\ ve_funded' = ve_funded + value
    /\ UNCHANGED <<now, received, submissionIdCounter, submissions, verificationVotes,
                   submissionVerifiers, consensusReachedAt, veWiring, repVars, afVars,
                   poolVars, peerWiring>>

\* Time passes between two blocks.
Advance(seconds) ==
    /\ now' = now + seconds
    /\ UNCHANGED <<verificationSide, taskSide>>

Tick == Advance(TickSeconds)

\* ------------------------------------------- AntiFraud, the submission checks

AntiFraud_setTaskManager(caller, addr) ==
    /\ SetAddressError(caller, addr) = "ok"
    /\ af_taskManagerAddress' = addr
    /\ UNCHANGED <<now, verificationSide, tmVars, workerDailySubmissions,
                   workerSubmissions, usedImageHashes, imageHashToWorker,
                   blacklistedWorkers>>

getCurrentDay == (now \div ONE_DAY) * ONE_DAY

\* _checkRateLimit without the reset of the counter on a new day.
TodaysCountUnreset(worker) == workerDailySubmissions[worker].count

\* _checkRateLimit: the worker's counter of the day, reset on a new day.
TodaysCount(worker) ==
    IF workerDailySubmissions[worker].date # getCurrentDay
    THEN 0 ELSE workerDailySubmissions[worker].count

\* bytes32(0), and the keccak256 of submitTaskCompletion's packed arguments: the
\* arguments themselves, so two hashes are equal only for equal arguments, and a
\* hash is never zero.
ZeroHash == <<>>
MetadataHash(taskId, sender, ipfsHash, timestamp, latitude, longitude) ==
    <<taskId, sender, ipfsHash, timestamp, latitude, longitude>>

\* The submission-check state of AntiFraud as it is before a call: what a reverting call leaves.
Untouched(err) ==
    [err |-> err,
     workerDailySubmissions |-> workerDailySubmissions,
     workerSubmissions |-> workerSubmissions,
     usedImageHashes |-> usedImageHashes,
     imageHashToWorker |-> imageHashToWorker]

\* _checkRateLimit's write when the limit is not reached.
CountedSubmission(worker) ==
    [workerDailySubmissions EXCEPT ![worker] =
        [date |-> getCurrentDay, count |-> TodaysCount(worker) + 1]]

\* _recordSubmission's entry of the worker's log.
SubmissionRecord(imageHash, metadataHash) ==
    [timestamp |-> now, imageHash |-> imageHash, metadataHash |-> metadataHash]

\* checkAndRecordSubmission with the writes made before a failing check kept.
CallCheckAndRecordSubmissionUnreverted(caller, worker, imageHash, metadataHash) ==
    IF caller # af_verificationContractAddress /\ caller # af_taskManagerAddress
    THEN Untouched("UnauthorizedCaller")
    ELSE IF blacklistedWorkers[worker]
    THEN Untouched("WorkerBlacklistedError")
    ELSE IF TodaysCount(worker) >= MAX_SUBMISSIONS_PER_DAY
    THEN [Untouched("RateLimitExceededError") EXCEPT
              !.workerDailySubmissions[worker] =
                  [date |-> getCurrentDay, count |-> TodaysCount(worker)]]
    ELSE IF usedImageHashes[imageHash]
    THEN [Untouched("DuplicateImageDetected") EXCEPT
              !.workerDailySubmissions = CountedSubmission(worker)]
    ELSE IF metadataHash = ZeroHash
    THEN [Untouched("InvalidMetadata") EXCEPT
              !.workerDailySubmissions = CountedSubmission(worker)]
    ELSE [err |-> "ok",
          workerDailySubmissions |-> CountedSubmission(worker),
          workerSubmissions |->
              [workerSubmissions EXCEPT ![worker] =
                  Append(@, SubmissionRecord(imageHash, metadataHash))],
          usedImageHashes |-> [usedImageHashes EXCEPT ![imageHash] = TRUE],
          imageHashToWorker |-> [imageHashToWorker EXCEPT ![imageHash] = worker]]

\* checkAndRecordSubmission without _checkDuplicateImage.
CallCheckAndRecordSubmissionUndeduplicated(caller, worker, imageHash, metadataHash) ==
    IF caller # af_verificationContractAddress /\ caller # af_taskManagerAddress
    THEN Untouched("UnauthorizedCaller")
    ELSE IF blacklistedWorkers[worker]
    THEN Untouched("WorkerBlacklistedError")
    ELSE IF TodaysCount(worker) >= MAX_SUBMISSIONS_PER_DAY
    THEN Untouched("RateLimitExceededError")
    ELSE IF metadataHash = ZeroHash
    THEN Untouched("InvalidMetadata")
    ELSE [err |-> "ok",
          workerDailySubmissions |-> CountedSubmission(worker),
          workerSubmissions |->
              [workerSubmissions EXCEPT ![worker] =
                  Append(@, SubmissionRecord(imageHash, metadataHash))],
          usedImageHashes |-> [usedImageHashes EXCEPT ![imageHash] = TRUE],
          imageHashToWorker |-> [imageHashToWorker EXCEPT ![imageHash] = worker]]

\* checkAndRecordSubmission: the modifiers, _checkRateLimit, _checkDuplicateImage,
\* _validateMetadata, _recordSubmission. A revert undoes the counter's write.
\* checkAndRecordSubmission with the blacklist consulted after the other checks.
CallCheckAndRecordSubmissionBlacklistLast(caller, worker, imageHash, metadataHash) ==
    IF caller # af_verificationContractAddress /\ caller # af_taskManagerAddress
    THEN Untouched("UnauthorizedCaller")
    ELSE IF TodaysCount(worker) >= MAX_SUBMISSIONS_PER_DAY
    THEN Untouched("RateLimitExceededError")
    ELSE IF usedImageHashes[imageHash]
    THEN Untouched("DuplicateImageDetected")
    ELSE IF metadataHash = ZeroHash
    THEN Untouched("InvalidMetadata")
    ELSE IF blacklistedWorkers[worker]
    THEN Untouched("WorkerBlacklistedError")
    ELSE [err |-> "ok",
          workerDailySubmissions |-> CountedSubmission(worker),
          workerSubmissions |->
              [workerSubmissions EXCEPT ![worker] =
                  Append(@, SubmissionRecord(imageHash, metadataHash))],
          usedImageHashes |-> [usedImageHashes EXCEPT ![imageHash] = TRUE],
          imageHashToWorker |-> [imageHashToWorker EXCEPT ![imageHash] = worker]]

CallCheckAndRecordSubmission(caller, worker, imageHash, metadataHash) ==
    IF caller # af_verificationContractAddress /\ caller # af_taskManagerAddress
    THEN Untouched("UnauthorizedCaller")
    ELSE IF blacklistedWorkers[worker]
    THEN Untouched("WorkerBlacklistedError")
    ELSE IF TodaysCount(worker) >= MAX_SUBMISSIONS_PER_DAY
    THEN Untouched("RateLimitExceededError")
    ELSE IF usedImageHashes[imageHash]
    THEN Untouched("DuplicateImageDetected")
    ELSE IF metadataHash = ZeroHash
    THEN Untouched("InvalidMetadata")
    ELSE [err |-> "ok",
          workerDailySubmissions |-> CountedSubmission(worker),
          workerSubmissions |->
              [workerSubmissions EXCEPT ![worker] =
                  Append(@, SubmissionRecord(imageHash, metadataHash))],
          usedImageHashes |-> [usedImageHashes EXCEPT ![imageHash] = TRUE],
          imageHashToWorker |-> [imageHashToWorker EXCEPT ![imageHash] = worker]]

\* The originalWorker argument of DuplicateImageDetected.
DuplicateOriginalWorker(imageHash) == imageHashToWorker[imageHash]

checkImageSimilarity(imageHash) ==
    IF usedImageHashes[imageHash]
    THEN <<TRUE, imageHashToWorker[imageHash]>>
    ELSE <<FALSE, ZERO>>

getTodaySubmissionCount(worker) ==
    IF workerDailySubmissions[worker].date = getCurrentDay
    THEN workerDailySubmissions[worker].count
    ELSE 0

\* The revert of an owner-only function without further checks.
OnlyOwnerError(caller) == IF caller # Owner THEN "OwnableUnauthorizedAccount" ELSE "ok"

blacklistWorker(caller, worker) ==
    /\ OnlyOwnerError(caller) = "ok"
    /\ blacklistedWorkers' = [blacklistedWorkers EXCEPT ![worker] = TRUE]
    /\ UNCHANGED <<now, verificationSide, tmVars, af_taskManagerAddress,
                   workerDailySubmissions, workerSubmissions, usedImageHashes,
                   imageHashToWorker>>

unblacklistWorker(caller, worker) ==
    /\ OnlyOwnerError(caller) = "ok"
    /\ blacklistedWorkers' = [blacklistedWorkers EXCEPT ![worker] = FALSE]
    /\ UNCHANGED <<now, verificationSide, tmVars, af_taskManagerAddress,
                   workerDailySubmissions, workerSubmissions, usedImageHashes,
                   imageHashToWorker>>

\* ------------------------------------------------------------- TaskManager

\* TaskManager.setAntiFraud: onlyOwner, then require(_antiFraud != address(0)).
TaskManager_setAntiFraud(caller, addr) ==
    /\ caller = Owner
    /\ addr # ZERO
    /\ tm_antiFraudAddress' = addr
    /\ UNCHANGED <<now, verificationSide, taskIdCounter, tasks, workerActiveTasks,
                   taskClaims, taskWorkers, tm_balance, afChecks>>

CreateTaskError(bountyAmount, deadline) ==
    IF bountyAmount < MINIMUM_BOUNTY THEN "InsufficientBounty"
    ELSE IF deadline <= now THEN "DeadlineExpired"
    ELSE "ok"

createTask(caller, value, bountyAmount, maxWorkers, location, deadline, requiresLocation) ==
    LET taskId == taskIdCounter
    IN  /\ CreateTaskError(bountyAmount, deadline) = "ok"
        /\ tm_balance' = tm_balance + value
        /\ taskIdCounter' = taskIdCounter + 1
        /\ tasks' = [tasks EXCEPT ![taskId] =
               [id |-> taskId, creator |-> caller, bountyAmount |-> bountyAmount,
                maxWorkers |-> maxWorkers, location |-> location,
                deadline |-> deadline, status |-> "ACTIVE",
                requiresLocation |-> requiresLocation, submissionCount |-> 0]]
        /\ UNCHANGED <<now, verificationSide, workerActiveTasks, taskClaims,
                       taskWorkers, tm_antiFraudAddress, afChecks>>

\* claimTask without its check of the worker's active tasks.
ClaimErrorUncapped(caller, taskId) ==
    LET task == tasks[taskId]
    IN  IF task.id # taskId THEN "InvalidTaskId"
        ELSE IF task.status # "ACTIVE" THEN "TaskNotActive"
        ELSE IF now > task.deadline THEN "DeadlineExpired"
        ELSE IF taskClaims[taskId][caller].worker # ZERO THEN "WorkerAlreadyClaimed"
        ELSE IF Len(taskWorkers[taskId]) >= task.maxWorkers THEN "TaskNotActive"
        ELSE "ok"

\* The revert of claimTask, in the order of its checks.
ClaimError(caller, taskId) ==
    LET task == tasks[taskId]
    IN  IF task.id # taskId THEN "InvalidTaskId"
        ELSE IF task.status # "ACTIVE" THEN "TaskNotActive"
        ELSE IF now > task.deadline THEN "DeadlineExpired"
        ELSE IF taskClaims[taskId][caller].worker # ZERO THEN "WorkerAlreadyClaimed"
        ELSE IF Len(workerActiveTasks[caller]) >= MAX_ACTIVE_TASKS_PER_WORKER
        THEN "MaxActiveTasksReached"
        ELSE IF Len(taskWorkers[taskId]) >= task.maxWorkers THEN "TaskNotActive"
        ELSE "ok"

claimTask(caller, taskId) ==
    /\ ClaimError(caller, taskId) = "ok"
    /\ taskClaims' = [taskClaims EXCEPT ![taskId][caller] =
           [worker |-> caller, claimedAt |-> now, completed |-> FALSE]]
    /\ workerActiveTasks' = [workerActiveTasks EXCEPT ![caller] = Append(@, taskId)]
    /\ taskWorkers' = [taskWorkers EXCEPT ![taskId] = Append(@, caller)]
    /\ tasks' = [tasks EXCEPT ![taskId].status = "IN_PROGRESS"]
    /\ UNCHANGED <<now, verificationSide, taskIdCounter, tm_antiFraudAddress,
                   tm_balance, afChecks>>

\* _isWithinRadius: (radius^2 * 1e12) / 111000^2 is (radius^2 * 1e6) / 12321.
isWithinRadius(required, provided) ==
    LET latDiff == required.latitude - provided.latitude
        lonDiff == required.longitude - provided.longitude
        distanceSquared == latDiff * latDiff + lonDiff * lonDiff
        radiusSquared == required.radius * required.radius
    IN  distanceSquared <= (radiusSquared * 1000000) \div 12321

\* _removeActiveTask: the first entry equal to taskId is overwritten by the last
\* one, and the last one is dropped.
removeActiveTask(activeTasks, taskId) ==
    LET hits == {i \in 1..Len(activeTasks) : activeTasks[i] = taskId}
    IN  IF hits = {} THEN activeTasks
        ELSE LET i == CHOOSE k \in hits : \A j \in hits : k <= j
                 moved == [activeTasks EXCEPT ![i] = activeTasks[Len(activeTasks)]]
             IN  SubSeq(moved, 1, Len(activeTasks) - 1)

\* The anti-fraud checks of submitTaskCompletion.
CheckSubmission(caller, taskId, ipfsHash, submissionLocation) ==
    IF tm_antiFraudAddress # ZERO
    THEN CallCheckAndRecordSubmission(TaskManagerC, caller, ipfsHash,
             MetadataHash(taskId, caller, ipfsHash, now,
                          submissionLocation.latitude, submissionLocation.longitude))
    ELSE Untouched("ok")

\* The revert of submitTaskCompletion before it calls AntiFraud, in the order of
\* its checks.
SubmitTaskPrecheck(caller, taskId, submissionLocation) ==
    LET task == tasks[taskId]
        claim == taskClaims[taskId][caller]
    IN  IF task.id # taskId THEN "InvalidTaskId"
        ELSE IF claim.worker = ZERO THEN "TaskNotClaimed"
        ELSE IF now > task.deadline THEN "DeadlineExpired"
        ELSE IF now > claim.claimedAt + TASK_COMPLETION_TIMEOUT THEN "DeadlineExpired"
        ELSE IF task.requiresLocation /\ ~isWithinRadius(task.location, submissionLocation)
        THEN "OutsideLocationRadius"
        ELSE "ok"

\* What submitTaskCompletion leaves behind: the revert, if any, and the state of
\* TaskManager and of AntiFraud's submission checks after the call.
SubmitTaskOutcome(caller, taskId, ipfsHash, submissionLocation) ==
    LET pre == SubmitTaskPrecheck(caller, taskId, submissionLocation)
        c == CheckSubmission(caller, taskId, ipfsHash, submissionLocation)
        kept == [tasks |-> tasks, taskClaims |-> taskClaims,
                 workerActiveTasks |-> workerActiveTasks]
    IN  IF pre # "ok" THEN Untouched(pre) @@ kept
        ELSE IF c.err # "ok" THEN c @@ kept
        ELSE c @@
             [tasks |-> [tasks EXCEPT ![taskId].submissionCount = @ + 1],
              taskClaims |-> [taskClaims EXCEPT ![taskId][caller].completed = TRUE],
              workerActiveTasks |->
                  [workerActiveTasks EXCEPT ![caller] = removeActiveTask(@, taskId)]]

\* The revert of submitTaskCompletion.
SubmitTaskError(caller, taskId, ipfsHash, submissionLocation) ==
    SubmitTaskOutcome(caller, taskId, ipfsHash, submissionLocation).err

submitTaskCompletion(caller, taskId, ipfsHash, submissionLocation) ==
    LET s == SubmitTaskOutcome(caller, taskId, ipfsHash, submissionLocation)
    IN  /\ s.err = "ok"
        /\ workerDailySubmissions' = s.workerDailySubmissions
        /\ workerSubmissions' = s.workerSubmissions
        /\ usedImageHashes' = s.usedImageHashes
        /\ imageHashToWorker' = s.imageHashToWorker
        /\ taskClaims' = s.taskClaims
        /\ workerActiveTasks' = s.workerActiveTasks
        /\ tasks' = s.tasks
        /\ UNCHANGED <<now, verificationSide, taskIdCounter, taskWorkers,
                       tm_antiFraudAddress, tm_balance, af_taskManagerAddress,
                       blacklistedWorkers>>

\* The revert of expireTask without the check of the deadline.
ExpireTaskErrorUndated(taskId) ==
    IF tasks[taskId].id # taskId THEN "InvalidTaskId" ELSE "ok"

ExpireTaskError(taskId) ==
    IF tasks[taskId].id # taskId THEN "InvalidTaskId"
    ELSE IF now <= tasks[taskId].deadline THEN "DeadlineExpired"
    ELSE "ok"

\* expireTask where it returns true (it returns false, changing nothing, on a task
\* that is EXPIRED or COMPLETED).
expireTask(taskId) ==
    /\ ExpireTaskError(taskId) = "ok"
    /\ tasks[taskId].status \notin {"EXPIRED", "COMPLETED"}
    /\ tasks' = [tasks EXCEPT ![taskId].status = "EXPIRED"]
    /\ UNCHANGED <<now, verificationSide, taskIdCounter, workerActiveTasks, taskClaims,
                   taskWorkers, tm_antiFraudAddress, tm_balance, afChecks>>

\* ------------------------------------------------------------- environment
\* The owner wires the contracts before the first operation, as the deployment
\* script does; the task manager of VerificationContract and of BountyPool is the
\* owner, as in the repository's tests (TaskManager itself makes neither call).
\* VerificationContract.setAntiFraud is made by the deployment script and not by
\* the tests: both wirings are explored.
Deployed == ve_taskManagerAddress # ZERO

PeersWired ==
    /\ rep_verificationContractAddress # ZERO
    /\ af_verificationContractAddress # ZERO
    /\ pool_verificationContractAddress # ZERO
    /\ pool_taskManagerAddress # ZERO
    /\ ve_reputationContractAddress # ZERO
    /\ ve_bountyPoolAddress # ZERO

\* Reviewers are interchangeable: they are numbered in the order of their first stake.
Arrives(caller, submissionId) ==
    \/ caller \in Workers
    \/ \E i \in 1..Len(VerifierNames) :
          /\ caller = VerifierNames[i]
          /\ \A j \in 1..(i - 1) :
                VerifierNames[j] \in Range(submissionVerifiers[submissionId])

Restakes(submissionId) ==
    Len(submissionVerifiers[submissionId])
        - Cardinality(Range(submissionVerifiers[submissionId]))

\* The stakes the environment makes: a bounded number of repeated stakes, and a
\* bounded number of stakes on an identifier createSubmission has not yet used.
MayStake(caller, submissionId) ==
    /\ IF caller \in Range(submissionVerifiers[submissionId])
       THEN Restakes(submissionId) < MaxRestakes
       ELSE Arrives(caller, submissionId)
    /\ \/ submissionId < submissionIdCounter
       \/ Len(submissionVerifiers[submissionId]) < MaxEarlyStakes

WirePeers ==
    \/ /\ rep_verificationContractAddress = ZERO
       /\ Reputation_setVerificationContract(Owner, VerificationC)
    \/ /\ af_verificationContractAddress = ZERO
       /\ AntiFraud_setVerificationContract(Owner, VerificationC)
    \/ /\ pool_verificationContractAddress = ZERO
       /\ BountyPool_setVerificationContract(Owner, VerificationC)
    \/ /\ pool_taskManagerAddress = ZERO
       /\ BountyPool_setTaskManager(Owner, Owner)
    \/ /\ ve_reputationContractAddress = ZERO
       /\ setReputationContract(Owner, ReputationC)
    \/ /\ ve_bountyPoolAddress = ZERO
       /\ setBountyPool(Owner, BountyPoolC)

Deploy ==
    /\ ~Deployed
    /\ \/ WirePeers
       \/ /\ ve_antiFraudAddress = ZERO
          /\ setAntiFraud(Owner, AntiFraudC)
       \/ /\ PeersWired
          /\ setTaskManager(Owner, Owner)

Operate ==
    /\ Deployed
    /\ \/ /\ submissionIdCounter < MaxSubmissions
          /\ \E worker \in Workers, b \in BountyValues :
                createSubmission(Owner, 0, worker, b)
       \/ \E s \in SubmissionIds, caller \in Accounts :
             /\ MayStake(caller, s)
             /\ stakeForVerification(caller, s, VERIFICATION_STAKE)
       \/ \E s \in SubmissionIds, caller \in Accounts, approved \in BOOLEAN :
             submitVerification(caller, s, approved)
       \/ \E s \in SubmissionIds : distributeVerificationRewards(s)
       \/ /\ taskBounties[0] = 0
          /\ \E b \in BountyValues : depositBounty(Owner, 0, b)
       \/ /\ ve_funded < MaxFundings * FundValue
          /\ receive(FundValue)
       \/ /\ now < StartTime + MaxTicks * TickSeconds
          /\ Tick

\* No call of these contracts reaches TaskManager or AntiFraud's submission checks.
Next ==
    \/ Deploy /\ UNCHANGED taskSide
    \/ Operate /\ UNCHANGED taskSide

Spec == Init /\ [][Next]_vars

\* The verification tests of the repository: the wiring of their beforeEach (no
\* AntiFraud on VerificationContract), one submission, and a full panel of
\* MAX_VERIFIERS reviewers who each stake once and vote in any order.
Panel == {VerifierNames[i] : i \in 1..MAX_VERIFIERS}

DeployPanel ==
    /\ ~Deployed
    /\ \/ WirePeers
       \/ /\ PeersWired
          /\ setTaskManager(Owner, Owner)

OperatePanel ==
    /\ Deployed
    /\ \/ /\ submissionIdCounter < MaxSubmissions
          /\ \E worker \in Workers, b \in BountyValues :
                createSubmission(Owner, 0, worker, b)
       \/ \E s \in SubmissionIds, caller \in Panel :
             /\ s < submissionIdCounter
             /\ caller \notin Range(submissionVerifiers[s])
             /\ Arrives(caller, s)
             /\ stakeForVerification(caller, s, VERIFICATION_STAKE)
       \/ \E s \in SubmissionIds, caller \in Panel, approved \in BOOLEAN :
             submitVerification(caller, s, approved)

NextPanel ==
    \/ DeployPanel /\ UNCHANGED taskSide
    \/ OperatePanel /\ UNCHANGED taskSide

SpecPanel == Init /\ [][NextPanel]_vars

\* The task ledger: the owner may wire AntiFraud before the first task (in the
\* order of the deployment script), creators open tasks due in DeadlineLead
\* seconds, workers claim and submit, time passes in steps of TaskTickSeconds.
DeployTasks ==
    /\ taskIdCounter = 0
    /\ \/ /\ af_taskManagerAddress = ZERO
          /\ AntiFraud_setTaskManager(Owner, TaskManagerC)
       \/ /\ af_taskManagerAddress # ZERO
          /\ tm_antiFraudAddress = ZERO
          /\ TaskManager_setAntiFraud(Owner, AntiFraudC)

\* The submissions made again for a claim that is already completed.
Resubmissions ==
    LET RECURSIVE Sum(_)
        Sum(n) == IF n = 0 THEN 0 ELSE tasks[n - 1].submissionCount + Sum(n - 1)
        completed == {<<t, w>> \in TaskIds \X TaskWorkers : taskClaims[t][w].completed}
    IN  Sum(MaxTasks) - Cardinality(completed)

OperateTasks ==
    \/ /\ taskIdCounter < MaxTasks
       /\ \E maxWorkers \in MaxWorkersValues,
             requiresLocation \in RequiresLocationValues :
             createTask(Owner, MINIMUM_BOUNTY, MINIMUM_BOUNTY, maxWorkers, TaskLocation,
                        now + DeadlineLead, requiresLocation)
    \/ \E caller \in TaskWorkers, taskId \in TaskIds : claimTask(caller, taskId)
    \/ \E caller \in TaskWorkers, taskId \in TaskIds, ipfsHash \in TaskImageHashes,
          submissionLocation \in SubmissionLocations :
             /\ taskClaims[taskId][caller].completed => Resubmissions < MaxResubmissions
             /\ submitTaskCompletion(caller, taskId, ipfsHash, submissionLocation)
    \/ \E taskId \in TaskIds : expireTask(taskId)
    \/ /\ now < StartTime + MaxTaskTicks * TaskTickSeconds
       /\ Advance(TaskTickSeconds)

NextTasks == DeployTasks \/ OperateTasks

SpecTasks == Init /\ [][NextTasks]_vars

\* Task creation alone, with the ether attached to the call (msg.value) chosen
\* apart from the bountyAmount argument, and deadlines at and after the clock.
CreateValues == {0, MINIMUM_BOUNTY - 1, MINIMUM_BOUNTY}
CreateBounties == {MINIMUM_BOUNTY - 1, MINIMUM_BOUNTY, 2 * MINIMUM_BOUNTY}
CreateDeadlineLeads == {0, 1, DeadlineLead}

OperateCreate ==
    \/ /\ taskIdCounter < MaxTasks
       /\ \E value \in CreateValues, bountyAmount \in CreateBounties,
             lead \in CreateDeadlineLeads :
             createTask(Owner, value, bountyAmount, 2, TaskLocation, now + lead, TRUE)
    \/ /\ now < StartTime + MaxTaskTicks * TaskTickSeconds
       /\ Advance(TaskTickSeconds)

NextCreate == OperateCreate

SpecCreate == Init /\ [][NextCreate]_vars

\* The submission checks of AntiFraud, reached through TaskManager as wired by the
\* tests: tasks without a location requirement, submissions each carrying the
\* first image hash not yet used, the owner's blacklist, and days passing. The
\* tasks are created first, and each worker works on a task of its own.
FraudLocation == [latitude |-> 0, longitude |-> 0, radius |-> 0]
FraudDeadlineLead == 2 * ONE_DAY
FraudTaskIds == 0..(MaxFraudTasks - 1)
OtherWorkers == {"w2"}
FraudTaskOf(worker) == IF worker \in OtherWorkers THEN 1 ELSE 0

UnusedHashIndexes == {i \in 1..NumHashes : ~usedImageHashes[HashNames[i]]}
FreshHashes ==
    {HashNames[i] : i \in {k \in UnusedHashIndexes : \A j \in UnusedHashIndexes : k <= j}}

OperateFraud ==
    \/ /\ tm_antiFraudAddress # ZERO
       /\ taskIdCounter < MaxFraudTasks
       /\ createTask(Owner, MINIMUM_BOUNTY, MINIMUM_BOUNTY, 2, TaskLocation,
                     now + FraudDeadlineLead, FALSE)
    \/ /\ taskIdCounter = MaxFraudTasks
       /\ \/ \E caller \in TaskWorkers : claimTask(caller, FraudTaskOf(caller))
          \/ \E caller \in TaskWorkers, ipfsHash \in FreshHashes :
                /\ caller \in OtherWorkers =>
                       Len(workerSubmissions[caller]) < MaxOtherSubmissions
                /\ submitTaskCompletion(caller, FraudTaskOf(caller), ipfsHash,
                                        FraudLocation)
          \/ \E worker \in TaskWorkers : blacklistWorker(Owner, worker)
          \/ \E worker \in TaskWorkers : unblacklistWorker(Owner, worker)
          \/ /\ now < StartTime + MaxFraudTicks * ONE_DAY
             /\ Advance(ONE_DAY)

NextFraud == DeployTasks \/ OperateFraud

SpecFraud == Init /\ [][NextFraud]_vars

\* ReputationContract alone, wired as its tests wire it: the owner's address is
\* set as verification contract and as task manager, and the owner makes the calls.
RepUsers == {"w1"}

DeployRep ==
    \/ /\ rep_verificationContractAddress = ZERO
       /\ Reputation_setVerificationContract(Owner, Owner)
    \/ /\ rep_verificationContractAddress # ZERO
       /\ rep_taskManagerAddress = ZERO
       /\ Reputation_setTaskManager(Owner, Owner)

OperateRep ==
    /\ rep_taskManagerAddress # ZERO
    /\ \E user \in RepUsers :
          LET rep == reputations[user]
              workerUpdates == rep.tasksCompleted + rep.tasksRejected
              categoryUpdates ==
                  rep.categoryStats["PHOTO_VERIFICATION"].totalCount
          IN  \/ initializeReputation(user, user)
              \/ /\ workerUpdates < MaxWorkerUpdates
                 /\ \E successful \in BOOLEAN :
                       Rep_updateWorkerReputation(Owner, user, successful)
              \/ /\ workerUpdates < MaxWorkerUpdates
                 /\ categoryUpdates < MaxCategoryUpdates
                 /\ \E category \in TaskCategories, successful \in BOOLEAN :
                       Rep_updateWorkerReputationWithCategory(Owner, user, category,
                                                              successful)
              \/ /\ rep.verificationsPerformed < MaxVerifierUpdates
                 /\ \E accurateVote \in BOOLEAN :
                       Rep_updateVerifierReputation(Owner, user, accurateVote)

NextRep == (DeployRep /\ UNCHANGED taskSide) \/ OperateRep

SpecRep == Init /\ [][NextRep]_vars

\* ReputationContract under long runs of category updates of one worker, with a
\* few of the other calls in between.
OperateBadge ==
    /\ rep_taskManagerAddress # ZERO
    /\ \E user \in RepUsers :
          LET rep == reputations[user]
              categoryUpdates ==
                  rep.categoryStats["PHOTO_VERIFICATION"].totalCount
              plainUpdates == rep.tasksCompleted + rep.tasksRejected - categoryUpdates
          IN  \/ initializeReputation(user, user)
              \/ /\ plainUpdates < MaxPlainUpdates
                 /\ \E successful \in BOOLEAN :
                       Rep_updateWorkerReputation(Owner, user, successful)
              \/ /\ categoryUpdates < MaxBadgeUpdates
                 /\ \E category \in TaskCategories, successful \in BOOLEAN :
                       Rep_updateWorkerReputationWithCategory(Owner, user, category,
                                                              successful)
              \/ /\ rep.verificationsPerformed < MaxPlainUpdates
                 /\ \E accurateVote \in BOOLEAN :
                       Rep_updateVerifierReputation(Owner, user, accurateVote)

NextBadge == (DeployRep /\ UNCHANGED taskSide) \/ OperateBadge

SpecBadge == Init /\ [][NextBadge]_vars

\* BountyPool alone, wired as its tests wire it: the owner stands for the task
\* manager and for the verification contract.
PoolTaskIds == {0, 1}
PoolDeposits == {500}
PoolAmounts == {39, 461, 500}
PoolWorker == "w1"
PoolCreator == "w2"

RECURSIVE SumOver(_, _)
SumOver(f, S) ==
    IF S = {} THEN 0
    ELSE LET x == CHOOSE y \in S : TRUE IN f[x] + SumOver(f, S \ {x})

DeployPool ==
    \/ /\ pool_verificationContractAddress = ZERO
       /\ BountyPool_setVerificationContract(Owner, Owner)
    \/ /\ pool_verificationContractAddress # ZERO
       /\ pool_taskManagerAddress = ZERO
       /\ BountyPool_setTaskManager(Owner, Owner)

OperatePool ==
    /\ pool_taskManagerAddress # ZERO
    /\ \/ \E taskId \in PoolTaskIds, value \in PoolDeposits :
             /\ pool_balance + SumOver(received, Addresses) + value <= MaxPoolEther
             /\ depositBounty(Owner, taskId, value)
             /\ UNCHANGED taskSide
       \/ \E taskId \in PoolTaskIds, amount \in PoolAmounts :
             BountyPool_distributeReward(Owner, taskId, PoolWorker, amount)
       \/ \E taskId \in PoolTaskIds, amount \in PoolAmounts :
             refundBounty(Owner, taskId, PoolCreator, amount)
       \/ withdrawPlatformFees(Owner)

NextPool == (DeployPool /\ UNCHANGED taskSide) \/ OperatePool

SpecPool == Init /\ [][NextPool]_vars

\* The restricted functions under every wiring the owner can set, each address
\* being the contract the deployment script names or the owner, as in the tests;
\* with the owner's blacklist and a funded pool.
Contracts == {VerificationC, ReputationC, AntiFraudC, BountyPoolC, TaskManagerC}
AccessCallers == (Addresses \ {ZERO}) \cup Contracts

WireAccess ==
    \/ \E addr \in {TaskManagerC, Owner} :
          \/ setTaskManager(Owner, addr) /\ UNCHANGED taskSide
          \/ Reputation_setTaskManager(Owner, addr) /\ UNCHANGED taskSide
          \/ BountyPool_setTaskManager(Owner, addr) /\ UNCHANGED taskSide
          \/ AntiFraud_setTaskManager(Owner, addr)
    \/ \E addr \in {VerificationC, Owner} :
          \/ Reputation_setVerificationContract(Owner, addr) /\ UNCHANGED taskSide
          \/ AntiFraud_setVerificationContract(Owner, addr) /\ UNCHANGED taskSide
          \/ BountyPool_setVerificationContract(Owner, addr) /\ UNCHANGED taskSide
    \/ TaskManager_setAntiFraud(Owner, AntiFraudC)

OperateAccess ==
    \/ blacklistWorker(Owner, PoolWorker)
    \/ unblacklistWorker(Owner, PoolWorker)
    \/ /\ pool_balance = 0
       /\ received[PoolWorker] = 0
       /\ depositBounty(pool_taskManagerAddress, 0, MINIMUM_BOUNTY)
       /\ UNCHANGED taskSide
    \/ BountyPool_distributeReward(pool_verificationContractAddress, 0, PoolWorker,
                                   MINIMUM_BOUNTY)
    \/ withdrawPlatformFees(Owner)

NextAccess == WireAccess \/ OperateAccess

SpecAccess == Init /\ [][NextAccess]_vars

\* One funded submission from its creation to its settlement and beyond: the
\* bounty is deposited, the submission created, reviewers stake once each and
\* vote at any time, anyone asks for the distribution, and the clock moves by
\* the distribution delay.
SettlePanel == {VerifierNames[i] : i \in 1..NumSettleReviewers}

OperateSettle ==
    /\ Deployed
    /\ \/ /\ pool_balance = 0
          /\ submissionIdCounter = 0
          /\ \E b \in BountyValues : depositBounty(Owner, 0, b)
       \/ /\ pool_balance > 0
          /\ submissionIdCounter < MaxSubmissions
          /\ \E worker \in Workers, b \in BountyValues :
                createSubmission(Owner, 0, worker, b)
       \/ \E s \in SubmissionIds, caller \in SettlePanel :
             /\ s < submissionIdCounter
             /\ caller \notin Range(submissionVerifiers[s])
             /\ Arrives(caller, s)
             /\ stakeForVerification(caller, s, VERIFICATION_STAKE)
       \/ \E s \in SubmissionIds, caller \in SettlePanel, approved \in BOOLEAN :
             submitVerification(caller, s, approved)
       \/ \E s \in SubmissionIds : distributeVerificationRewards(s)
       \/ /\ submissionIdCounter > 0
          /\ now < StartTime + MaxSettleTicks * REWARD_DISTRIBUTION_DELAY
          /\ Advance(REWARD_DISTRIBUTION_DELAY)

NextSettle ==
    \/ DeployPanel /\ UNCHANGED taskSide
    \/ OperateSettle /\ UNCHANGED taskSide

SpecSettle == Init /\ [][NextSettle]_vars

\* ------------------------------------------------------------------ claims
Created(s) == s < submissionIdCounter

Settled(s) == submissions[s].status \in {"VERIFIED", "REJECTED"}

\* C1: once approvalCount or rejectionCount of a submission has reached
\* CONSENSUS_THRESHOLD its status is VERIFIED or REJECTED, and no later step
\* changes that status (votes cast after consensus by earlier stakers included).
C1_ConsensusIsFinal ==
    [][\A s \in SubmissionIds :
          (Created(s) /\ Settled(s)) => submissions'[s].status = submissions[s].status]_vars

\* Reputation and AntiFraud are wired into VerificationContract, and both accept
\* its calls.
FullyWired ==
    /\ Deployed
    /\ ve_reputationContractAddress # ZERO
    /\ ve_antiFraudAddress # ZERO
    /\ rep_verificationContractAddress = VerificationC
    /\ af_verificationContractAddress = VerificationC

\* Reviewer v has staked on submission s and has not voted yet.
CanVote(v, s) ==
    /\ verificationVotes[s][v].stake > 0
    /\ ~verificationVotes[s][v].hasVoted

\* C2: with Reputation and AntiFraud both wired, the submitVerification call that
\* brings a PENDING submission's rejectionCount to CONSENSUS_THRESHOLD succeeds,
\* leaves the submission REJECTED with the consensus time recorded, and lowers the
\* worker's reputation score by REPUTATION_DECREASE.
C2_ThirdRejectionSucceeds ==
    \A s \in SubmissionIds, v \in Accounts :
        (/\ FullyWired
         /\ Created(s)
         /\ submissions[s].status = "PENDING"
         /\ submissions[s].rejectionCount = CONSENSUS_THRESHOLD - 1
         /\ submissions[s].approvalCount < CONSENSUS_THRESHOLD
         /\ CanVote(v, s))
        => LET c == checkConsensus(s, CountVote(submissions[s], FALSE))
               worker == submissions[s].worker
           IN  /\ SubmitError(v, s, FALSE) = "ok"
               /\ c.submission.status = "REJECTED"
               /\ c.consensusAt = now
               /\ c.reputations[worker].score
                      = getReputationScore(worker) - REPUTATION_DECREASE

\* The votes of the repository's dispute test: the first two reviewers approve,
\* the next four reject, the seventh approves.
DisputeTestVotes(s) ==
    /\ submissionVerifiers[s] = [i \in 1..MAX_VERIFIERS |-> VerifierNames[i]]
    /\ \A i \in 1..MAX_VERIFIERS :
          /\ verificationVotes[s][VerifierNames[i]].hasVoted
          /\ verificationVotes[s][VerifierNames[i]].approved = (i \in {1, 2, 7})

\* C3: a submission becomes DISPUTED when its MAX_VERIFIERS-th vote is recorded
\* without consensus, and MAX_VERIFIERS distinct reviewers can bring one submission
\* there: the seven votes of the repository's dispute test end in DISPUTED.
C3_SevenVotesEndDisputed ==
    \A s \in SubmissionIds :
        (Created(s) /\ DisputeTestVotes(s)) => submissions[s].status = "DISPUTED"

\* No reachable state of the panel has a DISPUTED submission: of MAX_VERIFIERS
\* votes, one side has CONSENSUS_THRESHOLD or more.
NeverDisputed == \A s \in SubmissionIds : submissions[s].status # "DISPUTED"

\* A step that pays out, moves ether out of a contract, collects a fee or updates
\* a reviewer's reputation record.
Settles ==
    \/ received' # received
    \/ ve_balance' < ve_balance
    \/ pool_balance' < pool_balance
    \/ accumulatedFees' # accumulatedFees
    \/ \E a \in Addresses :
          reputations'[a].verificationsPerformed # reputations[a].verificationsPerformed

\* C4: distributeVerificationRewards takes effect at most once per submission:
\* once a submission's rewards are distributed, every call for it fails with
\* RewardAlreadyDistributed, its flag is never cleared, and every step that pays
\* out or updates a reviewer's record is the first distribution of some submission.
C4_DistributedOnce ==
    /\ [](\A s \in SubmissionIds :
             (Created(s) /\ submissions[s].rewardDistributed)
             => DistributeError(s) = "RewardAlreadyDistributed")
    /\ [][\A s \in SubmissionIds :
             (Created(s) /\ submissions[s].rewardDistributed)
             => submissions'[s].rewardDistributed]_vars
    /\ [][Settles => \E s \in SubmissionIds :
                        /\ ~submissions[s].rewardDistributed
                        /\ submissions'[s].rewardDistributed]_vars

C4_Witness ==
    \E s \in SubmissionIds :
        /\ Created(s)
        /\ submissions[s].rewardDistributed
        /\ \E v \in Verifiers : received[v] > 0

\* The three reviewers of the repository's reward test staked VERIFICATION_STAKE
\* each and approved; the bounty is in escrow; nobody else sent the contract ether.
RewardTestRun(s) ==
    /\ Created(s)
    /\ submissions[s].bountyAmount = 10 * VERIFICATION_STAKE
    /\ taskBounties[submissions[s].taskId] = submissions[s].bountyAmount
    /\ pool_balance = submissions[s].bountyAmount
    /\ submissionVerifiers[s] = [i \in 1..CONSENSUS_THRESHOLD |-> VerifierNames[i]]
    /\ \A i \in 1..CONSENSUS_THRESHOLD :
          verificationVotes[s][VerifierNames[i]] =
              [hasVoted |-> TRUE, approved |-> TRUE, stake |-> VERIFICATION_STAKE]
    /\ ve_funded = 0
    /\ ~submissions[s].rewardDistributed
    /\ TimeSinceConsensus(s) >= REWARD_DISTRIBUTION_DELAY

\* C5: in that run distributeVerificationRewards succeeds: the worker receives
\* 0.975 of the bounty of 1.0, the fees grow by 0.025 and each reviewer receives
\* 0.11 (amounts in units of 0.001).
C5_RewardTestPaysOut ==
    \A s \in SubmissionIds :
        RewardTestRun(s)
        => LET after == Settle(s)
               worker == submissions[s].worker
           IN  /\ DistributeError(s) = "ok"
               /\ after.verifiers.received[worker] = received[worker] + 975
               /\ after.pool.accumulatedFees = accumulatedFees + 25
               /\ \A i \in 1..CONSENSUS_THRESHOLD :
                     after.verifiers.received[VerifierNames[i]]
                         = received[VerifierNames[i]] + 110

Voters(s) == {a \in Addresses : verificationVotes[s][a].hasVoted}

\* C7: a successful distributeVerificationRewards pays every reviewer whose vote
\* matches the outcome stake plus 10% exactly once and updates their record with
\* exactly one accurate vote; a reviewer whose vote does not match is paid nothing
\* and gets exactly one inaccurate update.
C7_EachReviewerSettledOnce ==
    [][\A s \in SubmissionIds :
          (/\ Created(s)
           /\ ~submissions[s].rewardDistributed
           /\ submissions'[s].rewardDistributed)
          => \A v \in Voters(s) \ {submissions[s].worker} :
                LET vote == verificationVotes[s][v]
                    matches == (vote.approved = (submissions[s].status = "VERIFIED"))
                    rep == reputations[v]
                IN  /\ received'[v] = received[v]
                           + (IF matches THEN VerifierReward(vote.stake) ELSE 0)
                    /\ reputations'[v].verificationsPerformed
                           = rep.verificationsPerformed + 1
                    /\ reputations'[v].accurateVerifications
                           = rep.accurateVerifications + (IF matches THEN 1 ELSE 0)]_vars

\* The submissions created for worker w.
SubmissionsOf(w) == {s \in SubmissionIds : Created(s) /\ submissions[s].worker = w}

\* C8: Reputation hears of a worker's outcome once per submission, so a worker's
\* record counts at most one outcome per submission and the score is within
\* REPUTATION_INCREASE of INITIAL_REPUTATION per submission.
C8_OneOutcomePerSubmission ==
    \A w \in Workers :
        LET n == Cardinality(SubmissionsOf(w))
            rep == reputations[w]
        IN  /\ rep.tasksCompleted + rep.tasksRejected <= n
            /\ getReputationScore(w) >= INITIAL_REPUTATION - n * REPUTATION_DECREASE
            /\ getReputationScore(w) <= INITIAL_REPUTATION + n * REPUTATION_INCREASE

\* C9: for every submission approvalCount + rejectionCount = totalVotes <=
\* MAX_VERIFIERS, and totalVotes is the number of reviewers whose vote is recorded.
C9_CountsMatchVotes ==
    \A s \in SubmissionIds :
        Created(s)
        => /\ submissions[s].approvalCount + submissions[s].rejectionCount
                 = submissions[s].totalVotes
           /\ submissions[s].totalVotes <= MAX_VERIFIERS
           /\ submissions[s].totalVotes = Cardinality(Voters(s))

\* The tasks worker w has claimed and not yet submitted.
ActiveClaims(w) ==
    {t \in TaskIds : taskClaims[t][w].worker # ZERO /\ ~taskClaims[t][w].completed}

\* claimTask(taskId) by w gets as far as the check of w's active tasks.
Claimable(w, taskId) ==
    /\ tasks[taskId].id = taskId
    /\ tasks[taskId].status = "ACTIVE"
    /\ now <= tasks[taskId].deadline
    /\ taskClaims[taskId][w].worker = ZERO

\* C10 as stated: no worker has more than MAX_ACTIVE_TASKS_PER_WORKER claimed,
\* unsubmitted tasks, and every claimTask by a worker who has that many fails with
\* MaxActiveTasksReached.
C10_FourthClaimHitsTheCap ==
    \A w \in TaskWorkers :
        /\ Cardinality(ActiveClaims(w)) <= MAX_ACTIVE_TASKS_PER_WORKER
        /\ Cardinality(ActiveClaims(w)) = MAX_ACTIVE_TASKS_PER_WORKER
           => \A taskId \in TaskIds : ClaimError(w, taskId) = "MaxActiveTasksReached"

\* C10, amended: no worker has more than MAX_ACTIVE_TASKS_PER_WORKER claimed,
\* unsubmitted tasks; every claimTask by a worker who has that many fails, and it
\* fails with MaxActiveTasksReached when the task exists, is ACTIVE, is not past
\* its deadline and is not already claimed by that worker.
C10_AtMostThreeActiveClaims ==
    \A w \in TaskWorkers :
        /\ Cardinality(ActiveClaims(w)) <= MAX_ACTIVE_TASKS_PER_WORKER
        /\ ActiveClaims(w) = {workerActiveTasks[w][i] : i \in 1..Len(workerActiveTasks[w])}
        /\ Cardinality(ActiveClaims(w)) = MAX_ACTIVE_TASKS_PER_WORKER
           => \A taskId \in TaskIds :
                 /\ ClaimError(w, taskId) # "ok"
                 /\ Claimable(w, taskId)
                    => ClaimError(w, taskId) = "MaxActiveTasksReached"

C10_Witness ==
    \E w \in TaskWorkers, taskId \in TaskIds :
        /\ Cardinality(ActiveClaims(w)) = MAX_ACTIVE_TASKS_PER_WORKER
        /\ Claimable(w, taskId)
        /\ tasks[taskId].maxWorkers > 0

\* Every claim worker w holds open was made more than TASK_COMPLETION_TIMEOUT ago.
AllClaimsStale(w) ==
    \A t \in ActiveClaims(w) : now > taskClaims[t][w].claimedAt + TASK_COMPLETION_TIMEOUT

\* C11: a claim not submitted within TASK_COMPLETION_TIMEOUT stops counting against
\* the cap: a worker whose MAX_ACTIVE_TASKS_PER_WORKER open claims are all older
\* than that can claim an ACTIVE task that has room for a worker.
C11_StaleClaimsFreeTheCap ==
    \A w \in TaskWorkers, taskId \in TaskIds :
        (/\ Cardinality(ActiveClaims(w)) = MAX_ACTIVE_TASKS_PER_WORKER
         /\ AllClaimsStale(w)
         /\ Claimable(w, taskId)
         /\ Len(taskWorkers[taskId]) < tasks[taskId].maxWorkers)
        => ClaimError(w, taskId) = "ok"

\* The step creates a task: createTask is the only writer of taskIdCounter.
TaskCreated == taskIdCounter' = taskIdCounter + 1

\* C12: every step that creates a task brings TaskManager at least MINIMUM_BOUNTY of
\* attached funds, and stores a bountyAmount of at least MINIMUM_BOUNTY and a
\* deadline strictly after the current time.
C12_CreateTaskNeedsFunds ==
    [][TaskCreated =>
        /\ tm_balance' >= tm_balance + MINIMUM_BOUNTY
        /\ tasks'[taskIdCounter].bountyAmount >= MINIMUM_BOUNTY
        /\ tasks'[taskIdCounter].deadline > now]_vars

\* C13: every step that creates a task leaves it ACTIVE with BountyPool's balance
\* for the new task id equal to the task's bountyAmount.
C13_CreateTaskFundsEscrow ==
    [][TaskCreated =>
        /\ tasks'[taskIdCounter].status = "ACTIVE"
        /\ taskBounties'[taskIdCounter] = tasks'[taskIdCounter].bountyAmount]_vars

\* The step is an accepted submitTaskCompletion on task t: nothing else writes
\* submissionCount.
TaskSubmitted(t) == tasks'[t].submissionCount = tasks[t].submissionCount + 1

\* C14: every accepted submitTaskCompletion on a task creates, in the same step, a
\* PENDING submission in VerificationContract for that task, with a worker of the
\* task as its worker and the task's bountyAmount as its bounty.
C14_SubmissionOpensReview ==
    [][\A t \in TaskIds : TaskSubmitted(t) =>
        /\ submissionIdCounter' = submissionIdCounter + 1
        /\ submissions'[submissionIdCounter].status = "PENDING"
        /\ submissions'[submissionIdCounter].taskId = t
        /\ submissions'[submissionIdCounter].worker \in Range(taskWorkers[t])
        /\ submissions'[submissionIdCounter].bountyAmount = tasks[t].bountyAmount]_vars

\* C15: a task never counts more submissions than it has claims, and a worker whose
\* claim on a task is completed has every further submitTaskCompletion on that task
\* rejected.
C15_OneSubmissionPerClaim ==
    \A t \in TaskIds :
        /\ tasks[t].submissionCount <= Len(taskWorkers[t])
        /\ \A w \in TaskWorkers : taskClaims[t][w].completed =>
               \A h \in ImageHashes, l \in SubmissionLocations :
                   SubmitTaskError(w, t, h, l) # "ok"

\* The inputs tried on every state: locations inside and outside a task's radius,
\* an empty and a non-empty metadata hash, callers AntiFraud does and does not know,
\* the two image hashes used first and the first one not used yet.
ProbeLocations == SubmissionLocations \cup {FraudLocation}
ProbeMetadata == {ZeroHash, MetadataHash(0, ZERO, HashNames[1], 0, 0, 0)}
ProbeCallers == {TaskManagerC, VerificationC, Owner}
ProbeHashes == {HashNames[1], HashNames[2]} \cup FreshHashes

\* The call's outcome r leaves AntiFraud's submission checks as they are.
SameChecks(r) ==
    /\ r.workerDailySubmissions = workerDailySubmissions
    /\ r.workerSubmissions = workerSubmissions
    /\ r.usedImageHashes = usedImageHashes
    /\ r.imageHashToWorker = imageHashToWorker

HashOwners(imageHash) ==
    {w \in Addresses : \E i \in 1..Len(workerSubmissions[w]) :
        workerSubmissions[w][i].imageHash = imageHash}

\* The call passes the modifiers and the rate limit of checkAndRecordSubmission.
ReachesDuplicateCheck(caller, worker) ==
    /\ caller \in {af_verificationContractAddress, af_taskManagerAddress}
    /\ ~blacklistedWorkers[worker]
    /\ TodaysCount(worker) < MAX_SUBMISSIONS_PER_DAY

\* C17: an image hash is indexed to at most one worker, for ever. A hash is used
\* exactly when one worker W had a submission with it accepted, and then the index
\* names W, checkImageSimilarity returns (true, W), every checkAndRecordSubmission
\* with that hash is rejected, by whichever worker, and it is rejected as a
\* duplicate naming W when the call passes the modifiers and the rate limit, which
\* are checked first; no step changes the entry of a used hash.
C17_HashIndexedOnce ==
    /\ [](\A imageHash \in ImageHashes :
            /\ usedImageHashes[imageHash] <=> HashOwners(imageHash) # {}
            /\ usedImageHashes[imageHash] =>
                   /\ HashOwners(imageHash) = {imageHashToWorker[imageHash]}
                   /\ checkImageSimilarity(imageHash)
                          = <<TRUE, imageHashToWorker[imageHash]>>
                   /\ \A caller \in ProbeCallers, worker \in TaskWorkers,
                         metadataHash \in ProbeMetadata :
                         LET c == CallCheckAndRecordSubmission(caller, worker,
                                      imageHash, metadataHash)
                         IN  /\ c.err # "ok"
                             /\ ReachesDuplicateCheck(caller, worker) =>
                                    /\ c.err = "DuplicateImageDetected"
                                    /\ DuplicateOriginalWorker(imageHash)
                                           \in HashOwners(imageHash))
    /\ [][\A imageHash \in ImageHashes : usedImageHashes[imageHash] =>
              /\ usedImageHashes'[imageHash]
              /\ imageHashToWorker'[imageHash] = imageHashToWorker[imageHash]]_vars

\* An image hash accepted for a worker, with that worker and another one both
\* rejected as duplicates when they submit it again.
C17_Witness ==
    \E imageHash \in ImageHashes, worker \in TaskWorkers, other \in TaskWorkers :
        /\ other # worker
        /\ imageHashToWorker[imageHash] = worker
        /\ Len(workerSubmissions[worker]) > 0
        /\ \A w \in {worker, other} :
               SubmitTaskError(w, FraudTaskOf(w), imageHash, FraudLocation)
                   = "DuplicateImageDetected"

\* C17 as stated: every checkAndRecordSubmission by an authorised caller carrying a
\* used image hash, for any worker who is not blacklisted, is rejected as a
\* duplicate.
C17_DuplicateAlwaysNamed ==
    \A imageHash \in ImageHashes, worker \in TaskWorkers :
        (usedImageHashes[imageHash] /\ ~blacklistedWorkers[worker]) =>
            CallCheckAndRecordSubmission(af_taskManagerAddress, worker, imageHash,
                MetadataHash(0, worker, imageHash, now, 0, 0)).err
                = "DuplicateImageDetected"

\* The day bucket of a timestamp, and the worker's logged submissions of today.
DayOf(timestamp) == (timestamp \div ONE_DAY) * ONE_DAY
AcceptedToday(worker) ==
    Cardinality({i \in 1..Len(workerSubmissions[worker]) :
        DayOf(workerSubmissions[worker][i].timestamp) = getCurrentDay})

\* C18: for each worker, getTodaySubmissionCount is the number of the worker's
\* submissions accepted in the current day and never exceeds
\* MAX_SUBMISSIONS_PER_DAY. For a call by an authorised caller and a worker who is
\* not blacklisted: with MAX_SUBMISSIONS_PER_DAY accepted today the call fails with
\* RateLimitExceededError whatever it carries; with fewer, a submission carrying an
\* unused image hash and a metadata hash is accepted and leaves the counter one
\* above today's number, which is 1 when the counter's date is an earlier day.
C18_TwentyPerDay ==
    \A worker \in TaskWorkers :
        /\ getTodaySubmissionCount(worker) = AcceptedToday(worker)
        /\ AcceptedToday(worker) <= MAX_SUBMISSIONS_PER_DAY
        /\ \A caller \in ProbeCallers, imageHash \in ProbeHashes,
              metadataHash \in ProbeMetadata :
              LET c == CallCheckAndRecordSubmission(caller, worker, imageHash,
                           metadataHash)
                  counter == c.workerDailySubmissions[worker]
              IN  (/\ caller \in {af_verificationContractAddress, af_taskManagerAddress}
                   /\ ~blacklistedWorkers[worker]) =>
                      /\ AcceptedToday(worker) >= MAX_SUBMISSIONS_PER_DAY =>
                             c.err = "RateLimitExceededError"
                      /\ (/\ AcceptedToday(worker) < MAX_SUBMISSIONS_PER_DAY
                          /\ ~usedImageHashes[imageHash]
                          /\ metadataHash # ZeroHash) =>
                             /\ c.err = "ok"
                             /\ counter.date = getCurrentDay
                             /\ counter.count = AcceptedToday(worker) + 1
                             /\ workerDailySubmissions[worker].date # getCurrentDay =>
                                    counter.count = 1

\* A worker with MAX_SUBMISSIONS_PER_DAY submissions accepted on one day and the
\* first one of the next day accepted.
C18_Witness ==
    \E worker \in TaskWorkers :
        /\ Len(workerSubmissions[worker]) = MAX_SUBMISSIONS_PER_DAY + 1
        /\ AcceptedToday(worker) = 1
        /\ getTodaySubmissionCount(worker) = 1

Min(a, b) == IF a <= b THEN a ELSE b
Max(a, b) == IF a >= b THEN a ELSE b

\* The record of an identity after n updateWorkerReputation calls with the same
\* outcome, starting from no record.
RECURSIVE AfterWorkerUpdates(_, _)
AfterWorkerUpdates(successful, n) ==
    IF n = 0 THEN EmptyReputation
    ELSE updateWorkerReputation(AfterWorkerUpdates(successful, n - 1), successful)

\* The record is that of n = tasksCompleted successful, or n = tasksRejected
\* unsuccessful, updateWorkerReputation calls on an identity without a record.
StreakRecord(rep, successful) ==
    /\ rep.verificationsPerformed = 0
    /\ rep.categoryStats = EmptyReputation.categoryStats
    /\ IF successful
       THEN /\ rep.tasksRejected = 0
            /\ rep.score = IF rep.tasksCompleted = 0 THEN 0
                            ELSE Min(MAX_REPUTATION,
                                     INITIAL_REPUTATION
                                         + REPUTATION_INCREASE * rep.tasksCompleted)
       ELSE /\ rep.tasksCompleted = 0
            /\ rep.score = IF rep.tasksRejected = 0 THEN 0
                            ELSE Max(MIN_REPUTATION,
                                     INITIAL_REPUTATION
                                         - REPUTATION_DECREASE * rep.tasksRejected)

\* The step is an updateWorkerReputation on user with the given outcome.
WorkerUpdateStep(user, successful) ==
    /\ reputations'[user].categoryStats = reputations[user].categoryStats
    /\ reputations'[user].verificationsPerformed
           = reputations[user].verificationsPerformed
    /\ IF successful
       THEN reputations'[user].tasksCompleted = reputations[user].tasksCompleted + 1
       ELSE reputations'[user].tasksRejected = reputations[user].tasksRejected + 1

\* C19: every score, stored or reported by getReputationScore, is between
\* MIN_REPUTATION and MAX_REPUTATION in every state; n updateWorkerReputation calls
\* with the same outcome on an identity without a record leave the score at
\* min(100, 50 + 5n) with tasksCompleted = n, or at max(0, 50 - 5n) with
\* tasksRejected = n; and a further such call on a record of that form leaves a
\* record of that form for n + 1.
C19_ScoreBoundedAndStreaks ==
    /\ [](/\ \A user \in Addresses :
              /\ reputations[user].score \in MIN_REPUTATION..MAX_REPUTATION
              /\ getReputationScore(user) \in MIN_REPUTATION..MAX_REPUTATION
          /\ \A n \in 1..MaxWorkerUpdates :
              /\ AfterWorkerUpdates(TRUE, n).score
                     = Min(MAX_REPUTATION, INITIAL_REPUTATION + REPUTATION_INCREASE * n)
              /\ AfterWorkerUpdates(TRUE, n).tasksCompleted = n
              /\ AfterWorkerUpdates(FALSE, n).score
                     = Max(MIN_REPUTATION, INITIAL_REPUTATION - REPUTATION_DECREASE * n)
              /\ AfterWorkerUpdates(FALSE, n).tasksRejected = n)
    /\ [][\A user \in RepUsers, successful \in BOOLEAN :
              (StreakRecord(reputations[user], successful)
                   /\ WorkerUpdateStep(user, successful))
              => StreakRecord(reputations'[user], successful)]_vars

\* An identity after 11 successful updateWorkerReputation calls and nothing else,
\* its score held at MAX_REPUTATION.
C19_Witness ==
    \E user \in RepUsers :
        /\ StreakRecord(reputations[user], TRUE)
        /\ reputations[user].tasksCompleted = 11
        /\ reputations[user].score = MAX_REPUTATION
        /\ getReputationScore(user) = MAX_REPUTATION

\* The step is one of the three update functions on user: each of them, and
\* nothing else, increments one of these counters.
ReputationUpdateStep(user) ==
    \/ reputations'[user].tasksCompleted # reputations[user].tasksCompleted
    \/ reputations'[user].tasksRejected # reputations[user].tasksRejected
    \/ reputations'[user].verificationsPerformed
           # reputations[user].verificationsPerformed

\* C20: every call of updateWorkerReputation, updateWorkerReputationWithCategory or
\* updateVerifierReputation moves the score reported by getReputationScore by +5
\* or by -5, or by less where it stops at MAX_REPUTATION or MIN_REPUTATION.
C20_UpdatesMoveScoreByFive ==
    [][\A user \in RepUsers : ReputationUpdateStep(user) =>
          getReputationScore(user)' \in
              {Min(MAX_REPUTATION, getReputationScore(user) + REPUTATION_INCREASE),
               Max(MIN_REPUTATION, getReputationScore(user) - REPUTATION_DECREASE)}]_vars

\* The category counts are at least 10 tasks with at least 90 in 100 successful.
BadgeEarned(stats) ==
    /\ stats.totalCount >= 10
    /\ (stats.successCount * 100) \div stats.totalCount >= 90

\* C21: a step grants a category badge only if it is an
\* updateWorkerReputationWithCategory of that category after which the category has
\* at least 10 tasks, at least 90 in 100 of them successful; whenever the counts
\* are such the badge is held (so the first such call granted it); a badge held is
\* held after every step; getReputationMultiplier is 11000 with the badge and 10000
\* without.
C21_BadgeEarnedOnceAndKept ==
    /\ [](\A user \in Addresses, category \in TaskCategories :
            LET stats == reputations[user].categoryStats[category]
            IN  /\ BadgeEarned(stats) => stats.hasBadge
                /\ getReputationMultiplier(user, category)
                       = IF hasCategoryBadge(user, category) THEN 11000 ELSE 10000)
    /\ [][\A user \in Addresses, category \in TaskCategories :
              LET stats == reputations[user].categoryStats[category]
                  after == reputations'[user].categoryStats[category]
              IN  /\ stats.hasBadge => after.hasBadge
                  /\ (~stats.hasBadge /\ after.hasBadge) =>
                         /\ after.totalCount = stats.totalCount + 1
                         /\ BadgeEarned(after)]_vars

\* A badge held by a worker whose later failures in the category have brought
\* the success rate under 90 in 100.
C21_Witness ==
    \E user \in RepUsers, category \in TaskCategories :
        LET stats == reputations[user].categoryStats[category]
        IN  /\ stats.hasBadge
            /\ stats.totalCount = MaxBadgeUpdates
            /\ ~BadgeEarned(stats)
            /\ getReputationMultiplier(user, category) = 11000

\* The amounts the pool is asked for: within, at and above a task's balance.
ProbeAmounts == {0, 1, 39, 40, 461, 500, 501, 1000}

\* A successful payout of `amount` at `bps` basis points of fee: the balance of
\* the task falls by the amount, the fee pool rises by the fee rounded down, the
\* recipient is paid the rest, the other balances stay.
PaysOut(r, taskId, amount, bps) ==
    LET fee == (amount * bps) \div 10000
    IN  /\ r.taskBounties[taskId] = taskBounties[taskId] - amount
        /\ \A other \in TaskIds \ {taskId} :
               r.taskBounties[other] = taskBounties[other]
        /\ r.accumulatedFees = accumulatedFees + fee
        /\ r.paid = amount - fee
        /\ r.pool_balance = pool_balance - (amount - fee)

PoolUntouched(r) ==
    /\ r.taskBounties = taskBounties
    /\ r.accumulatedFees = accumulatedFees
    /\ r.pool_balance = pool_balance
    /\ r.paid = 0

\* A step that lowers the balance of a task by `amount`, charging `bps`.
PayoutStep(taskId, recipient, amount, bps) ==
    LET fee == (amount * bps) \div 10000
    IN  /\ taskBounties' = [taskBounties EXCEPT ![taskId] = @ - amount]
        /\ accumulatedFees' = accumulatedFees + fee
        /\ received' = [received EXCEPT ![recipient] = @ + amount - fee]

\* C22: a successful distributeReward(taskId, worker, amount) lowers the balance of
\* the task by amount, raises the fee pool by floor(amount*250/10000) and pays the
\* worker the rest; refundBounty does the same with floor(amount*500/10000); either
\* call for more than the balance fails with InsufficientBounty and changes
\* nothing; no balance is ever negative; every step that lowers a balance is one
\* of these two payouts.
C22_PayoutsChargeTheirFee ==
    /\ [](\A taskId \in TaskIds : taskBounties[taskId] >= 0)
    /\ [](\A taskId \in PoolTaskIds, amount \in ProbeAmounts :
            LET d == CallDistributeReward(pool_verificationContractAddress, taskId,
                                          PoolWorker, amount)
                f == CallRefundBounty(pool_taskManagerAddress, taskId,
                                      PoolCreator, amount)
            IN  /\ d.err = "ok" => PaysOut(d, taskId, amount, 250)
                /\ f.err = "ok" => PaysOut(f, taskId, amount, 500)
                /\ d.err # "ok" => PoolUntouched(d)
                /\ f.err # "ok" => PoolUntouched(f)
                /\ amount > taskBounties[taskId] =>
                       /\ d.err = "InsufficientBounty"
                       /\ f.err = "InsufficientBounty")
    /\ [][\A taskId \in TaskIds :
              taskBounties'[taskId] < taskBounties[taskId] =>
                  LET amount == taskBounties[taskId] - taskBounties'[taskId]
                  IN  \/ PayoutStep(taskId, PoolWorker, amount, 250)
                      \/ PayoutStep(taskId, PoolCreator, amount, 500)]_vars

\* A reward whose fee rounds down to nothing and a refund of the rest of the
\* same task have both been paid, the other task still holding its deposit.
C22_Witness ==
    /\ received[PoolWorker] = 39
    /\ received[PoolCreator] = 461 - 23
    /\ accumulatedFees = 23
    /\ \E taskId \in PoolTaskIds : taskBounties[taskId] = 0
    /\ \E taskId \in PoolTaskIds : taskBounties[taskId] = 500

\* C24: withdrawPlatformFees by the owner with a non-empty fee pool pays the owner
\* the pool amount and empties the pool, no task balance changing; with an empty
\* pool it fails with NoFeesToWithdraw and changes nothing; a step that lowers
\* the fee pool empties it and pays the owner what it held.
C24_WithdrawalEmptiesTheFeePool ==
    /\ [](LET r == CallWithdrawPlatformFees(Owner)
          IN  /\ accumulatedFees > 0 =>
                     /\ r.err = "ok"
                     /\ r.paid = accumulatedFees
                     /\ r.accumulatedFees = 0
                     /\ r.pool_balance = pool_balance - accumulatedFees
              /\ accumulatedFees = 0 =>
                     /\ r.err = "NoFeesToWithdraw"
                     /\ r.paid = 0
                     /\ r.accumulatedFees = accumulatedFees
                     /\ r.pool_balance = pool_balance)
    /\ [][accumulatedFees' < accumulatedFees =>
              /\ accumulatedFees' = 0
              /\ received' = [received EXCEPT ![Owner] = @ + accumulatedFees]
              /\ pool_balance' = pool_balance - accumulatedFees
              /\ taskBounties' = taskBounties]_vars

\* The owner has withdrawn the fees of a refund while a task still holds a
\* balance, and the pool is empty again.
C24_Witness ==
    /\ received[Owner] = 25
    /\ accumulatedFees = 0
    /\ \E taskId \in PoolTaskIds : taskBounties[taskId] = 500

\* The step is an expireTask on task t that returns true.
TaskExpires(t) == tasks[t].status # "EXPIRED" /\ tasks'[t].status = "EXPIRED"

\* C23: a step in which expireTask sets a task to EXPIRED is taken after the
\* deadline of a task that is neither COMPLETED nor EXPIRED, and in it the
\* creator is sent the bounty of the task less 5 in 100, none of it staying in
\* TaskManager or BountyPool.
C23_ExpiryRefundsTheRequester ==
    [][\A t \in TaskIds :
          (t < taskIdCounter /\ TaskExpires(t)) =>
              LET bounty == tasks[t].bountyAmount
                  fee == (bounty * 500) \div 10000
              IN  /\ now > tasks[t].deadline
                  /\ tasks[t].status \notin {"COMPLETED", "EXPIRED"}
                  /\ received'[tasks[t].creator]
                         = received[tasks[t].creator] + bounty - fee
                  /\ tm_balance' + pool_balance'
                         = tm_balance + pool_balance - (bounty - fee)]_vars

StatusRank(status) ==
    IF status = "ACTIVE" THEN 0 ELSE IF status = "IN_PROGRESS" THEN 1 ELSE 2

\* C26: the status of a created task never moves back from IN_PROGRESS to ACTIVE
\* or out of COMPLETED, EXPIRED or CANCELLED; and on an EXPIRED task no claimTask
\* and no submitTaskCompletion is accepted, whoever calls and whatever is
\* submitted.
C26_StatusMovesForward ==
    /\ [][\A t \in TaskIds :
              t < taskIdCounter =>
                  /\ StatusRank(tasks'[t].status) >= StatusRank(tasks[t].status)
                  /\ StatusRank(tasks[t].status) = 2 =>
                         tasks'[t].status = tasks[t].status]_vars
    /\ [](\A t \in TaskIds :
            (t < taskIdCounter /\ tasks[t].status = "EXPIRED") =>
                \A caller \in TaskWorkers :
                    /\ ClaimError(caller, t) # "ok"
                    /\ \A ipfsHash \in TaskImageHashes,
                          submissionLocation \in SubmissionLocations :
                          SubmitTaskError(caller, t, ipfsHash, submissionLocation)
                              # "ok")

\* An EXPIRED task that was IN_PROGRESS: a worker holds a claim on it that was
\* never completed, and another worker holds none.
C26_Witness ==
    \E t \in TaskIds, w, other \in TaskWorkers :
        /\ t < taskIdCounter
        /\ tasks[t].status = "EXPIRED"
        /\ taskClaims[t][w].worker = w
        /\ ~taskClaims[t][w].completed
        /\ taskClaims[t][other].worker = ZERO

\* C30: on a created task that is not EXPIRED and whose deadline has not passed,
\* claimTask by a worker without a claim on it and with fewer than 3 active
\* claims is accepted while fewer than maxWorkers workers have claimed the task
\* and rejected once maxWorkers have.
C30_ClaimableUpToMaxWorkers ==
    \A t \in TaskIds, w \in TaskWorkers :
        (/\ t < taskIdCounter
         /\ tasks[t].status # "EXPIRED"
         /\ now <= tasks[t].deadline
         /\ taskClaims[t][w].worker = ZERO
         /\ Len(workerActiveTasks[w]) < 3) =>
            IF Len(taskWorkers[t]) < tasks[t].maxWorkers
            THEN ClaimError(w, t) = "ok"
            ELSE ClaimError(w, t) # "ok"

ProbeStakes == {0, VERIFICATION_STAKE - 1, VERIFICATION_STAKE, 2 * VERIFICATION_STAKE}

\* stakeForVerification is rejected on a settled submission, from the worker of
\* the submission, on a submission with 7 stakes, and with less than the stake.
StakeRejections ==
    \A s \in SubmissionIds, caller \in Accounts, value \in ProbeStakes :
        (\/ Created(s) /\ Settled(s)
         \/ Created(s) /\ caller = submissions[s].worker
         \/ Len(submissionVerifiers[s]) >= 7
         \/ value < 100) =>
            StakeError(caller, s, value) # "ok"

AtMostSevenStaked == \A s \in SubmissionIds : Len(submissionVerifiers[s]) <= 7

NoVoteByOwnWorker ==
    \A s \in SubmissionIds :
        Created(s) => ~verificationVotes[s][submissions[s].worker].hasVoted

\* C27: stakeForVerification is rejected when the submission is VERIFIED or
\* REJECTED, when the caller is the worker of the submission, when 7 reviewers have
\* staked on it or when less than 0.1 is sent; no submission has more than 7
\* staked reviewers; no submission holds a vote of its own worker.
C27_NoStakeNoVoteByOwnWorker ==
    /\ StakeRejections
    /\ AtMostSevenStaked
    /\ NoVoteByOwnWorker

\* C28: submitVerification by an account with no stake recorded on the
\* submission, or with a vote recorded on it, is rejected (so that counts and
\* status stay); a recorded vote stays recorded, with the same choice, in every
\* later step.
C28_VotesAreCastOnce ==
    /\ [](\A s \in SubmissionIds, caller \in Accounts, approved \in BOOLEAN :
            LET vote == verificationVotes[s][caller]
            IN  (vote.stake = 0 \/ vote.hasVoted) =>
                    SubmitError(caller, s, approved) # "ok")
    /\ [][\A s \in SubmissionIds, caller \in Accounts :
              verificationVotes[s][caller].hasVoted =>
                  /\ verificationVotes'[s][caller].hasVoted
                  /\ verificationVotes'[s][caller].approved
                         = verificationVotes[s][caller].approved]_vars

\* A submission still open to votes on which one reviewer has voted and another
\* has staked without voting, a third account having no stake on it.
C28_Witness ==
    \E s \in SubmissionIds, voter, staker, absent \in Accounts :
        /\ Created(s)
        /\ submissions[s].status \in {"PENDING", "DISPUTED"}
        /\ verificationVotes[s][voter].hasVoted
        /\ verificationVotes[s][staker].stake > 0
        /\ ~verificationVotes[s][staker].hasVoted
        /\ verificationVotes[s][absent].stake = 0

\* TaskManager and AntiFraud know each other.
FraudChecksWired ==
    /\ tm_antiFraudAddress # ZERO
    /\ af_taskManagerAddress = TaskManagerC

\* C29: with TaskManager and AntiFraud wired, every submission check of a
\* blacklisted worker fails with WorkerBlacklistedError, whatever the image hash,
\* the metadata and the day's count, and leaves the checks' records as they are,
\* and every submitTaskCompletion of that worker is rejected, with that error
\* when TaskManager's own checks pass; a worker who is not blacklisted never gets
\* that error and has a fresh image accepted under the day's limit; a step that
\* changes the blacklist changes neither the hash index, nor the daily counters,
\* nor the submission log.
C29_BlacklistComesFirst ==
    /\ [](FraudChecksWired =>
            \A worker \in TaskWorkers, imageHash \in ProbeHashes :
                /\ \A metadataHash \in ProbeMetadata :
                       LET c == CallCheckAndRecordSubmission(TaskManagerC, worker,
                                                            imageHash, metadataHash)
                       IN  IF blacklistedWorkers[worker]
                           THEN c.err = "WorkerBlacklistedError" /\ SameChecks(c)
                           ELSE /\ c.err # "WorkerBlacklistedError"
                                /\ (/\ imageHash \in FreshHashes
                                    /\ metadataHash # ZeroHash
                                    /\ getTodaySubmissionCount(worker)
                                           < MAX_SUBMISSIONS_PER_DAY) => c.err = "ok"
                /\ \A taskId \in TaskIds :
                       LET e == SubmitTaskError(worker, taskId, imageHash, FraudLocation)
                           pre == SubmitTaskPrecheck(worker, taskId, FraudLocation)
                       IN  IF blacklistedWorkers[worker]
                           THEN /\ e # "ok"
                                /\ pre = "ok" => e = "WorkerBlacklistedError"
                           ELSE e # "WorkerBlacklistedError")
    /\ [][blacklistedWorkers' # blacklistedWorkers =>
              UNCHANGED <<usedImageHashes, imageHashToWorker, workerDailySubmissions,
                          workerSubmissions>>]_vars

\* A blacklisted worker with an open claim who has used up the day's 20
\* submissions and indexed 20 hashes: the rate limit and, for a used hash, the
\* duplicate check would refuse the submission as well.
C29_Witness ==
    \E worker \in TaskWorkers :
        /\ FraudChecksWired
        /\ blacklistedWorkers[worker]
        /\ getTodaySubmissionCount(worker) = MAX_SUBMISSIONS_PER_DAY
        /\ Cardinality({h \in ImageHashes : imageHashToWorker[h] = worker}) >= 20
        /\ SubmitTaskPrecheck(worker, FraudTaskOf(worker), FraudLocation) = "ok"

\* The call's outcome r is the revert `err` with the pool as it was.
PoolRejects(r, err) == r.err = err /\ PoolUntouched(r)

C31_ConsensusTimeWrittenOnce ==
    [][\A s \in SubmissionIds :
          (Created(s) /\ Settled(s)) =>
              /\ consensusReachedAt'[s] = consensusReachedAt[s]
              /\ now >= consensusReachedAt[s] + REWARD_DISTRIBUTION_DELAY =>
                     now' >= consensusReachedAt'[s] + REWARD_DISTRIBUTION_DELAY]_vars

\* BountyPool is wired into VerificationContract and accepts its calls.
EscrowWired ==
    /\ ve_bountyPoolAddress # ZERO
    /\ pool_verificationContractAddress = VerificationC

\* C32: with BountyPool wired, the worker of a VERIFIED submission whose rewards
\* are distributed has been paid its bounty less the fee of 250 in 10000, once,
\* and the worker of a REJECTED or DISPUTED submission has been paid nothing
\* (each worker has one submission and is no reviewer).
C32_PaidExactlyWhenVerified ==
    EscrowWired =>
        \A s \in SubmissionIds :
            Created(s) =>
                LET submission == submissions[s]
                    bounty == submission.bountyAmount
                IN  /\ (submission.status = "VERIFIED" /\ submission.rewardDistributed)
                           => received[submission.worker]
                                  = bounty - (bounty * 250) \div 10000
                    /\ submission.status \in {"REJECTED", "DISPUTED"}
                           => received[submission.worker] = 0

\* A worker whose submission is REJECTED or DISPUTED has been paid nothing.
UnpaidUnlessVerified ==
    \A s \in SubmissionIds :
        (Created(s) /\ submissions[s].status \in {"REJECTED", "DISPUTED"})
            => received[submissions[s].worker] = 0

\* C33: once the rewards of a submission are distributed, every
\* stakeForVerification and every submitVerification on it is rejected, and no
\* step changes its status, its counts or its recorded votes.
C33_SettledSubmissionIsClosed ==
    /\ [](\A s \in SubmissionIds :
            (Created(s) /\ submissions[s].rewardDistributed) =>
                \A caller \in SettlePanel :
                    /\ StakeError(caller, s, VERIFICATION_STAKE) # "ok"
                    /\ \A approved \in BOOLEAN :
                          SubmitError(caller, s, approved) # "ok")
    /\ [][\A s \in SubmissionIds :
              (Created(s) /\ submissions[s].rewardDistributed) =>
                  /\ submissions'[s] = submissions[s]
                  /\ verificationVotes'[s] = verificationVotes[s]]_vars

\* C34: no identity appears twice in the list of staked reviewers of a created
\* submission that is open to stakes, and stakeForVerification by an identity
\* already in that list is rejected, whether it has voted or not.
C34_OneStakePerReviewer ==
    \A s \in SubmissionIds :
        (Created(s) /\ ~Settled(s)) =>
            /\ Cardinality(Range(submissionVerifiers[s])) = Len(submissionVerifiers[s])
            /\ \A caller \in Range(submissionVerifiers[s]) :
                   StakeError(caller, s, VERIFICATION_STAKE) # "ok"

\* C35: with BountyPool wired and no ether in VerificationContract but the
\* stakes, distributeVerificationRewards succeeds on every VERIFIED or REJECTED
\* submission whose rewards are not yet distributed and whose consensus is
\* REWARD_DISTRIBUTION_DELAY seconds old.
C35_DecidedSubmissionCanBeSettled ==
    (EscrowWired /\ ve_funded = 0) =>
        \A s \in SubmissionIds :
            (/\ Created(s) /\ Settled(s) /\ ~submissions[s].rewardDistributed
             /\ TimeSinceConsensus(s) >= REWARD_DISTRIBUTION_DELAY)
                => DistributeError(s) = "ok"

\* The sum of the per-task balances plus the fee pool.
Booked == SumOver(taskBounties, TaskIds) + accumulatedFees

\* Everything BountyPool has paid to workers, requesters and the owner.
PaidOut == SumOver(received, Addresses)

C37_InitializedOnce ==
    \A user \in RepUsers :
        LET rep == reputations[user]
        IN  rep.tasksCompleted + rep.tasksRejected + rep.verificationsPerformed > 0
                => InitializeReputationError(user) = "ReputationAlreadyInitialized"

\* C38: for every identity the score of getReputationData equals
\* getReputationScore, and hasPriorityAccess is true exactly when that score is
\* at least HIGH_REPUTATION_THRESHOLD.
C38_ReputationQueriesAgree ==
    \A user \in RepUsers :
        /\ getReputationData(user).score = getReputationScore(user)
        /\ hasPriorityAccess(user) <=> getReputationScore(user) >= HIGH_REPUTATION_THRESHOLD

\* hasPriorityAccess is true exactly when getReputationScore is at least
\* HIGH_REPUTATION_THRESHOLD.
PriorityFollowsScore ==
    \A user \in RepUsers :
        hasPriorityAccess(user) <=> getReputationScore(user) >= HIGH_REPUTATION_THRESHOLD

====
